---- MODULE Spec2Model ----
(***************************************************************************)
(* Model of the SEO scoring engine, class SEOAnalyzer (seo_analyzer.py).   *)
(*                                                                         *)
(* Numbers.  The page-speed scores are Python floats (collector: score *   *)
(* 100).  Every score of the model is a fixed-point number in TENTHS of a  *)
(* point: 85 is 850, 85.3 is 853.  Pt(n) converts whole points to tenths.  *)
(* The weighted total of calculate_overall_score is then a number of       *)
(* hundredths, which round(total, 1) brings back to tenths.  Counts and    *)
(* lengths (title_length, word_count, ...) are plain integers.             *)
(*                                                                         *)
(* Text.  A text is a sequence of strings: the literal pieces of the       *)
(* Python f-string, and one one-character string per digit of a formatted  *)
(* number, so that "the entry mentions 45" is a statement about digits.    *)
(*                                                                         *)
(* Dictionaries are functions whose DOMAIN is the set of keys present.     *)
(***************************************************************************)
EXTENDS Integers, Sequences, FiniteSets, TLC

VARIABLES
    data,           \* self.data: the input record
    issues,         \* self.issues
    opportunities,  \* self.opportunities
    strengths,      \* self.strengths
    scores,         \* self.scores
    pc,             \* position inside analyze_all
    calls,          \* number of analyze_all calls started on this instance
    returned,       \* the values analyze_all has returned, oldest first
    analyses,       \* the results of the analyzers created before this one
    rpc,            \* position inside SEOAutomation.run ("idle": no run)
    args,           \* the arguments of run: urls and skip_ai as passed
    config,         \* self.config and the environment: target_urls, api_key
    all_data,       \* all_data of collect_seo_data, collected_data of run
    loop_index,     \* position of the loop run is in: urls, collected records
    skip_ai,        \* the local skip_ai of run
    ai_insights_list,   \* ai_insights_list of run
    model_calls,        \* number of generate_insights calls made so far
    generated_reports,  \* generated_reports of run
    avg_score           \* avg_score of run: <<>>, or <<sum, count>> once computed

\* the state of one SEOAutomation.run
runVars == <<rpc, args, config, all_data, loop_index, skip_ai, ai_insights_list,
             model_calls, generated_reports, avg_score>>

vars == <<data, issues, opportunities, strengths, scores, pc, calls, returned,
          analyses, runVars>>

\* analyze_all may be called at most this many times on one instance
MaxCalls == 2

\* at most this many analyzers are created on the record, one after the other
MaxAnalyzers == 2

(***************************************************************************)
(* Dictionaries                                                            *)
(***************************************************************************)
EmptyDict == [k \in {} |-> 0]

Has(d, k) == k \in DOMAIN d

Get(d, k, default) == IF k \in DOMAIN d THEN d[k] ELSE default

Put(d, k, v) == [x \in (DOMAIN d) \cup {k} |-> IF x = k THEN v ELSE d[x]]

Restrict(d, K) == [x \in (DOMAIN d) \cap K |-> d[x]]

(***************************************************************************)
(* Numbers and their formatting                                            *)
(***************************************************************************)
Pt(n) == n * 10

\* n / d rounded to the nearest integer, ties to the even one (n >= 0, d > 0)
HalfEven(n, d) ==
    LET q == n \div d
        r == n % d
    IN  IF 2 * r > d \/ (2 * r = d /\ q % 2 = 1) THEN q + 1 ELSE q

\* round(total, 1): hundredths to tenths
Round1(total) ==
    IF total < 0 THEN 0 - HalfEven(0 - total, 10) ELSE HalfEven(total, 10)

DigitChars == <<"0", "1", "2", "3", "4", "5", "6", "7", "8", "9">>

RECURSIVE Digits(_)
Digits(n) ==
    IF n < 10 THEN <<DigitChars[n + 1]>>
    ELSE Digits(n \div 10) \o <<DigitChars[(n % 10) + 1]>>

\* f"{n}" of an integer
Str(n) == IF n < 0 THEN <<"-">> \o Digits(0 - n) ELSE Digits(n)

\* f"{x:.0f}" of a score in tenths
Fmt0f(x) ==
    IF x < 0 THEN <<"-">> \o Digits(HalfEven(0 - x, 10))
    ELSE Digits(HalfEven(x, 10))

(***************************************************************************)
(* Findings of one rule: what it appends to the three lists                *)
(***************************************************************************)
Out(i, s, o) == [issues |-> i, strengths |-> s, opportunities |-> o]

Nothing == Out(<<>>, <<>>, <<>>)

Cat(a, b) == Out(a.issues \o b.issues,
                 a.strengths \o b.strengths,
                 a.opportunities \o b.opportunities)

Issue(category, severity, text, recommendation) ==
    [category |-> category, severity |-> severity, issue |-> text,
     recommendation |-> recommendation]

ErrorIssue(category, text, details) ==
    [category |-> category, severity |-> "warning", issue |-> text,
     details |-> details]

(***************************************************************************)
(* analyze_page_speed                                                      *)
(***************************************************************************)
\* the performance rule calling 80 and above excellent
PerformanceRuleFrom80(perf_score) ==
    IF perf_score >= Pt(80) THEN
        Out(<<>>, << <<"Excellent page performance">> >>, <<>>)
    ELSE IF perf_score >= Pt(50) THEN
        Out(<< Issue("Performance", "warning",
                     <<"Moderate performance score: ">> \o Fmt0f(perf_score)
                        \o <<"/", "1", "0", "0">>,
                     "Optimize images, minify CSS/JS, enable caching") >>,
            <<>>, <<>>)
    ELSE
        Out(<< Issue("Performance", "critical",
                     <<"Poor performance score: ">> \o Fmt0f(perf_score)
                        \o <<"/", "1", "0", "0">>,
                     "Critical: Improve server response time, optimize images, reduce JavaScript") >>,
            <<>>, <<>>)

PerformanceRule(perf_score) ==
    IF perf_score >= Pt(90) THEN
        Out(<<>>, << <<"Excellent page performance">> >>, <<>>)
    ELSE IF perf_score >= Pt(50) THEN
        Out(<< Issue("Performance", "warning",
                     <<"Moderate performance score: ">> \o Fmt0f(perf_score)
                        \o <<"/", "1", "0", "0">>,
                     "Optimize images, minify CSS/JS, enable caching") >>,
            <<>>, <<>>)
    ELSE
        Out(<< Issue("Performance", "critical",
                     <<"Poor performance score: ">> \o Fmt0f(perf_score)
                        \o <<"/", "1", "0", "0">>,
                     "Critical: Improve server response time, optimize images, reduce JavaScript") >>,
            <<>>, <<>>)

SeoScoreRule(seo_score) ==
    IF seo_score >= Pt(90) THEN
        Out(<<>>,
            << <<"Strong technical SEO score: ">> \o Fmt0f(seo_score)
                  \o <<"/", "1", "0", "0">> >>,
            <<>>)
    ELSE IF seo_score < Pt(80) THEN
        Out(<< Issue("Technical SEO", "warning",
                     <<"SEO score needs improvement: ">> \o Fmt0f(seo_score)
                        \o <<"/", "1", "0", "0">>,
                     "Review meta tags, heading structure, and mobile-friendliness") >>,
            <<>>, <<>>)
    ELSE Nothing

\* the mobile rule reading an absent mobile_friendly as true
MobileRuleDefaultTrue(speed_data) ==
    IF ~Get(speed_data, "mobile_friendly", TRUE) THEN
        Out(<< Issue("Mobile", "critical", <<"Page is not mobile-friendly">>,
                     "Add viewport meta tag and ensure responsive design") >>,
            <<>>, <<>>)
    ELSE Nothing

MobileRule(speed_data) ==
    IF ~Get(speed_data, "mobile_friendly", FALSE) THEN
        Out(<< Issue("Mobile", "critical", <<"Page is not mobile-friendly">>,
                     "Add viewport meta tag and ensure responsive design") >>,
            <<>>, <<>>)
    ELSE Nothing

\* what analyze_page_speed appends
PageSpeedFindings(speed_data) ==
    IF Has(speed_data, "error") THEN
        Out(<< ErrorIssue("Performance", <<"Could not retrieve PageSpeed data">>,
                          speed_data["error"]) >>,
            <<>>, <<>>)
    ELSE
        Cat(Cat(PerformanceRule(Get(speed_data, "performance_score", 0)),
                SeoScoreRule(Get(speed_data, "seo_score", 0))),
            MobileRule(speed_data))

\* the two page-speed scores stored under each other's key
PageSpeedScoresSwapped(speed_data, sc) ==
    IF Has(speed_data, "error") THEN sc
    ELSE Put(Put(sc, "performance", Get(speed_data, "seo_score", 0)),
             "technical_seo", Get(speed_data, "performance_score", 0))

\* self.scores after analyze_page_speed
PageSpeedScores(speed_data, sc) ==
    IF Has(speed_data, "error") THEN sc
    ELSE Put(Put(sc, "performance", Get(speed_data, "performance_score", 0)),
             "technical_seo", Get(speed_data, "seo_score", 0))

(***************************************************************************)
(* analyze_on_page_seo                                                     *)
(***************************************************************************)
\* the title rule testing "too short" before "missing"
TitleRuleShortFirst(title_length) ==
    IF title_length < 30 THEN
        Out(<< Issue("On-Page SEO", "warning",
                     <<"Title tag too short: ">> \o Str(title_length)
                        \o <<" characters">>,
                     "Expand title to 50-60 characters for better SEO") >>,
            <<>>, <<>>)
    ELSE IF title_length = 0 THEN
        Out(<< Issue("On-Page SEO", "critical", <<"Missing title tag">>,
                     "Add a descriptive title tag (50-60 characters)") >>,
            <<>>, <<>>)
    ELSE IF title_length > 60 THEN
        Out(<< Issue("On-Page SEO", "warning",
                     <<"Title tag too long: ">> \o Str(title_length)
                        \o <<" characters">>,
                     "Shorten title to 50-60 characters to avoid truncation") >>,
            <<>>, <<>>)
    ELSE
        Out(<<>>,
            << <<"Good title length: ">> \o Str(title_length)
                  \o <<" characters">> >>,
            <<>>)

\* the title rule with the recommended range 50-60 as the good range
TitleRuleNarrow(title_length) ==
    IF title_length = 0 THEN
        Out(<< Issue("On-Page SEO", "critical", <<"Missing title tag">>,
                     "Add a descriptive title tag (50-60 characters)") >>,
            <<>>, <<>>)
    ELSE IF title_length < 50 THEN
        Out(<< Issue("On-Page SEO", "warning",
                     <<"Title tag too short: ">> \o Str(title_length)
                        \o <<" characters">>,
                     "Expand title to 50-60 characters for better SEO") >>,
            <<>>, <<>>)
    ELSE IF title_length > 60 THEN
        Out(<< Issue("On-Page SEO", "warning",
                     <<"Title tag too long: ">> \o Str(title_length)
                        \o <<" characters">>,
                     "Shorten title to 50-60 characters to avoid truncation") >>,
            <<>>, <<>>)
    ELSE
        Out(<<>>,
            << <<"Good title length: ">> \o Str(title_length)
                  \o <<" characters">> >>,
            <<>>)

TitleRule(title_length) ==
    IF title_length = 0 THEN
        Out(<< Issue("On-Page SEO", "critical", <<"Missing title tag">>,
                     "Add a descriptive title tag (50-60 characters)") >>,
            <<>>, <<>>)
    ELSE IF title_length < 30 THEN
        Out(<< Issue("On-Page SEO", "warning",
                     <<"Title tag too short: ">> \o Str(title_length)
                        \o <<" characters">>,
                     "Expand title to 50-60 characters for better SEO") >>,
            <<>>, <<>>)
    ELSE IF title_length > 60 THEN
        Out(<< Issue("On-Page SEO", "warning",
                     <<"Title tag too long: ">> \o Str(title_length)
                        \o <<" characters">>,
                     "Shorten title to 50-60 characters to avoid truncation") >>,
            <<>>, <<>>)
    ELSE
        Out(<<>>,
            << <<"Good title length: ">> \o Str(title_length)
                  \o <<" characters">> >>,
            <<>>)

\* the meta description rule with both ends of 120..160 excluded
MetaRuleExclusive(meta_desc_length) ==
    IF meta_desc_length = 0 THEN
        Out(<< Issue("On-Page SEO", "critical", <<"Missing meta description">>,
                     "Add a compelling meta description (150-160 characters)") >>,
            <<>>, <<>>)
    ELSE IF meta_desc_length <= 120 THEN
        Out(<< Issue("On-Page SEO", "warning",
                     <<"Meta description too short: ">> \o Str(meta_desc_length)
                        \o <<" characters">>,
                     "Expand to 150-160 characters for better CTR") >>,
            <<>>, <<>>)
    ELSE IF meta_desc_length >= 160 THEN
        Out(<< Issue("On-Page SEO", "warning",
                     <<"Meta description too long: ">> \o Str(meta_desc_length)
                        \o <<" characters">>,
                     "Shorten to 150-160 characters to avoid truncation") >>,
            <<>>, <<>>)
    ELSE
        Out(<<>>,
            << <<"Good meta description length: ">> \o Str(meta_desc_length)
                  \o <<" characters">> >>,
            <<>>)

MetaRule(meta_desc_length) ==
    IF meta_desc_length = 0 THEN
        Out(<< Issue("On-Page SEO", "critical", <<"Missing meta description">>,
                     "Add a compelling meta description (150-160 characters)") >>,
            <<>>, <<>>)
    ELSE IF meta_desc_length < 120 THEN
        Out(<< Issue("On-Page SEO", "warning",
                     <<"Meta description too short: ">> \o Str(meta_desc_length)
                        \o <<" characters">>,
                     "Expand to 150-160 characters for better CTR") >>,
            <<>>, <<>>)
    ELSE IF meta_desc_length > 160 THEN
        Out(<< Issue("On-Page SEO", "warning",
                     <<"Meta description too long: ">> \o Str(meta_desc_length)
                        \o <<" characters">>,
                     "Shorten to 150-160 characters to avoid truncation") >>,
            <<>>, <<>>)
    ELSE
        Out(<<>>,
            << <<"Good meta description length: ">> \o Str(meta_desc_length)
                  \o <<" characters">> >>,
            <<>>)

\* the heading rule without its test for several H1 tags
H1RuleNoMultiple(h1_count) ==
    IF h1_count = 0 THEN
        Out(<< Issue("On-Page SEO", "critical", <<"Missing H", "1", " heading">>,
                     "Add exactly one H1 tag with primary keyword") >>,
            <<>>, <<>>)
    ELSE
        Out(<<>>, << <<"Proper H", "1", " structure">> >>, <<>>)

H1Rule(h1_count) ==
    IF h1_count = 0 THEN
        Out(<< Issue("On-Page SEO", "critical", <<"Missing H", "1", " heading">>,
                     "Add exactly one H1 tag with primary keyword") >>,
            <<>>, <<>>)
    ELSE IF h1_count > 1 THEN
        Out(<< Issue("On-Page SEO", "warning",
                     <<"Multiple H", "1", " tags found: ">> \o Str(h1_count),
                     "Use only one H1 tag per page") >>,
            <<>>, <<>>)
    ELSE
        Out(<<>>, << <<"Proper H", "1", " structure">> >>, <<>>)

\* the alt-text rule warning from 20% on (>= in the place of >)
ImagesRuleAtLeast(total_images, images_without_alt) ==
    IF total_images > 0 /\ images_without_alt > 0 THEN
        IF images_without_alt * 100 >= 20 * total_images THEN
            Out(<< Issue("Image Optimization", "warning",
                         Str(images_without_alt) \o <<"/">> \o Str(total_images)
                            \o <<" images missing alt text (">>
                            \o Digits(HalfEven(images_without_alt * 100, total_images))
                            \o <<"%)">>,
                         "Add descriptive alt text to all images for accessibility and SEO") >>,
                <<>>, <<>>)
        ELSE
            Out(<<>>, <<>>,
                << <<"Add alt text to ">> \o Str(images_without_alt)
                      \o <<" remaining images">> >>)
    ELSE IF total_images > 0 THEN
        Out(<<>>, << <<"All images have alt text">> >>, <<>>)
    ELSE Nothing

\* percentage = (images_without_alt / total_images) * 100, compared with 20:
\* a/n*100 > 20 exactly when a*100 > 20*n (n > 0)
ImagesRule(total_images, images_without_alt) ==
    IF total_images > 0 /\ images_without_alt > 0 THEN
        IF images_without_alt * 100 > 20 * total_images THEN
            Out(<< Issue("Image Optimization", "warning",
                         Str(images_without_alt) \o <<"/">> \o Str(total_images)
                            \o <<" images missing alt text (">>
                            \o Digits(HalfEven(images_without_alt * 100, total_images))
                            \o <<"%)">>,
                         "Add descriptive alt text to all images for accessibility and SEO") >>,
                <<>>, <<>>)
        ELSE
            Out(<<>>, <<>>,
                << <<"Add alt text to ">> \o Str(images_without_alt)
                      \o <<" remaining images">> >>)
    ELSE IF total_images > 0 THEN
        Out(<<>>, << <<"All images have alt text">> >>, <<>>)
    ELSE Nothing

\* the content rule calling 1500 words comprehensive (>= in the place of >)
ContentRuleFrom1500(word_count) ==
    IF word_count < 300 THEN
        Out(<< Issue("Content", "warning",
                     <<"Thin content: only ">> \o Str(word_count) \o <<" words">>,
                     "Aim for at least 1000 words for better ranking potential") >>,
            <<>>, <<>>)
    ELSE IF word_count >= 1500 THEN
        Out(<<>>,
            << <<"Comprehensive content: ">> \o Str(word_count) \o <<" words">> >>,
            <<>>)
    ELSE
        Out(<<>>, <<>>,
            << <<"Consider expanding content (current: ">> \o Str(word_count)
                  \o <<" words)">> >>)

ContentRule(word_count) ==
    IF word_count < 300 THEN
        Out(<< Issue("Content", "warning",
                     <<"Thin content: only ">> \o Str(word_count) \o <<" words">>,
                     "Aim for at least 1000 words for better ranking potential") >>,
            <<>>, <<>>)
    ELSE IF word_count > 1500 THEN
        Out(<<>>,
            << <<"Comprehensive content: ">> \o Str(word_count) \o <<" words">> >>,
            <<>>)
    ELSE
        Out(<<>>, <<>>,
            << <<"Consider expanding content (current: ">> \o Str(word_count)
                  \o <<" words)">> >>)

LinksRule(internal_links) ==
    IF internal_links < 3 THEN
        Out(<<>>, <<>>,
            << <<"Add more internal links to improve site structure">> >>)
    ELSE Nothing

\* the penalties of the on-page score, one operator per "if" of the code
TitlePenalty(title_length) ==
    IF title_length = 0 THEN 20
    ELSE IF title_length < 30 \/ title_length > 60 THEN 10 ELSE 0

\* a missing meta description penalised like one of the wrong length
MetaPenaltyFlat(meta_desc_length) ==
    IF meta_desc_length < 120 \/ meta_desc_length > 160 THEN 10 ELSE 0

MetaPenalty(meta_desc_length) ==
    IF meta_desc_length = 0 THEN 20
    ELSE IF meta_desc_length < 120 \/ meta_desc_length > 160 THEN 10 ELSE 0

H1Penalty(h1_count) == IF h1_count # 1 THEN 15 ELSE 0

\* the image penalty applied only to pages that have images
ImagesPenaltyWithImages(total_images, images_without_alt) ==
    IF total_images > 0 /\ 10 * images_without_alt > total_images * 2
    THEN 10 ELSE 0

\* images_without_alt > total_images * 0.2, i.e. 5 * images_without_alt > total_images
ImagesPenalty(total_images, images_without_alt) ==
    IF 10 * images_without_alt > total_images * 2 THEN 10 ELSE 0

ContentPenalty(word_count) == IF word_count < 300 THEN 15 ELSE 0

\* the score with "if" in the place of each "elif": an absent title or meta
\* description is penalised as missing and as out of range
OnPageRawScoreNoElif(onpage) ==
    LET title_length == Get(onpage, "title_length", 0)
        meta_desc_length == Get(onpage, "meta_description_length", 0)
    IN  100 - (IF title_length = 0 THEN 20 ELSE 0)
            - (IF title_length < 30 \/ title_length > 60 THEN 10 ELSE 0)
            - (IF meta_desc_length = 0 THEN 20 ELSE 0)
            - (IF meta_desc_length < 120 \/ meta_desc_length > 160 THEN 10 ELSE 0)
            - H1Penalty(Get(onpage, "h1_count", 0))
            - ImagesPenalty(Get(onpage, "total_images", 0),
                            Get(onpage, "images_without_alt", 0))
            - ContentPenalty(Get(onpage, "word_count", 0))

\* the local variable score just before max(0, score)
OnPageRawScore(onpage) ==
    100 - TitlePenalty(Get(onpage, "title_length", 0))
        - MetaPenalty(Get(onpage, "meta_description_length", 0))
        - H1Penalty(Get(onpage, "h1_count", 0))
        - ImagesPenalty(Get(onpage, "total_images", 0),
                        Get(onpage, "images_without_alt", 0))
        - ContentPenalty(Get(onpage, "word_count", 0))

Max(a, b) == IF a >= b THEN a ELSE b

\* max(0, score), in points
OnPageScore(onpage) == Max(0, OnPageRawScore(onpage))

\* what analyze_on_page_seo appends
OnPageFindings(onpage) ==
    IF Has(onpage, "error") THEN
        Out(<< ErrorIssue("On-Page SEO", <<"Could not analyze on-page elements">>,
                          onpage["error"]) >>,
            <<>>, <<>>)
    ELSE
        Cat(Cat(Cat(Cat(Cat(TitleRule(Get(onpage, "title_length", 0)),
                            MetaRule(Get(onpage, "meta_description_length", 0))),
                        H1Rule(Get(onpage, "h1_count", 0))),
                    ImagesRule(Get(onpage, "total_images", 0),
                               Get(onpage, "images_without_alt", 0))),
                ContentRule(Get(onpage, "word_count", 0))),
            LinksRule(Get(onpage, "internal_links_count", 0)))

\* the error branch without its return: the score is computed all the same
OnPageScoresNoReturn(onpage, sc) ==
    Put(sc, "on_page_seo", Pt(OnPageScore(onpage)))

\* self.scores after analyze_on_page_seo
OnPageScores(onpage, sc) ==
    IF Has(onpage, "error") THEN sc
    ELSE Put(sc, "on_page_seo", Pt(OnPageScore(onpage)))

(***************************************************************************)
(* analyze_technical_seo                                                   *)
(***************************************************************************)
HttpsRule(technical) ==
    IF ~Get(technical, "is_https", FALSE) THEN
        Out(<< Issue("Security", "critical", <<"Site not using HTTPS">>,
                     "Implement SSL certificate for security and SEO") >>,
            <<>>, <<>>)
    ELSE
        Out(<<>>, << <<"Secure HTTPS connection">> >>, <<>>)

StatusRule(status_code) ==
    IF status_code # 200 THEN
        Out(<< Issue("Technical SEO", "critical",
                     <<"Unexpected status code: ">> \o Str(status_code),
                     "Ensure page returns 200 OK status") >>,
            <<>>, <<>>)
    ELSE Nothing

\* the response-time rule calling 2000 ms slow (>= in the place of >)
ResponseTimeRuleFrom2000(response_time) ==
    IF response_time >= 2000 THEN
        Out(<< Issue("Performance", "warning",
                     <<"Slow response time: ">> \o Str(response_time) \o <<"ms">>,
                     "Optimize server performance, use CDN, enable caching") >>,
            <<>>, <<>>)
    ELSE IF response_time < 500 THEN
        Out(<<>>,
            << <<"Fast response time: ">> \o Str(response_time) \o <<"ms">> >>,
            <<>>)
    ELSE Nothing

ResponseTimeRule(response_time) ==
    IF response_time > 2000 THEN
        Out(<< Issue("Performance", "warning",
                     <<"Slow response time: ">> \o Str(response_time) \o <<"ms">>,
                     "Optimize server performance, use CDN, enable caching") >>,
            <<>>, <<>>)
    ELSE IF response_time < 500 THEN
        Out(<<>>,
            << <<"Fast response time: ">> \o Str(response_time) \o <<"ms">> >>,
            <<>>)
    ELSE Nothing

RobotsRule(technical) ==
    IF ~Get(technical, "has_robots_txt", FALSE) THEN
        Out(<<>>, <<>>,
            << <<"Add robots.txt file to guide search engine crawlers">> >>)
    ELSE
        Out(<<>>, << <<"robots.txt file present">> >>, <<>>)

SitemapRule(technical) ==
    IF ~Get(technical, "has_sitemap", FALSE) THEN
        Out(<<>>, <<>>, << <<"Add XML sitemap for better indexing">> >>)
    ELSE
        Out(<<>>, << <<"XML sitemap present">> >>, <<>>)

CompressionRule(technical) ==
    IF ~Get(technical, "has_compression", FALSE) THEN
        Out(<<>>, <<>>,
            << <<"Enable GZIP/Brotli compression to reduce page size">> >>)
    ELSE Nothing

\* analyze_technical_seo reading an absent status_code as 200
TechnicalFindingsStatusDefault200(technical) ==
    IF Has(technical, "error") THEN
        Out(<< ErrorIssue("Technical SEO", <<"Could not analyze technical aspects">>,
                          technical["error"]) >>,
            <<>>, <<>>)
    ELSE
        Cat(Cat(Cat(Cat(Cat(HttpsRule(technical),
                            StatusRule(Get(technical, "status_code", 200))),
                        ResponseTimeRule(Get(technical, "response_time_ms", 0))),
                    RobotsRule(technical)),
                SitemapRule(technical)),
            CompressionRule(technical))

\* what analyze_technical_seo appends
TechnicalFindings(technical) ==
    IF Has(technical, "error") THEN
        Out(<< ErrorIssue("Technical SEO", <<"Could not analyze technical aspects">>,
                          technical["error"]) >>,
            <<>>, <<>>)
    ELSE
        Cat(Cat(Cat(Cat(Cat(HttpsRule(technical),
                            StatusRule(Get(technical, "status_code", 0))),
                        ResponseTimeRule(Get(technical, "response_time_ms", 0))),
                    RobotsRule(technical)),
                SitemapRule(technical)),
            CompressionRule(technical))

\* analyze_technical_seo grading its own section into technical_seo
TechnicalScoresFromSection(technical, sc) ==
    IF Has(technical, "error") THEN sc
    ELSE Put(sc, "technical_seo",
             IF Get(technical, "is_https", FALSE) THEN Pt(100) ELSE 0)

\* self.scores after analyze_technical_seo: the method assigns no score
TechnicalScores(technical, sc) == sc

(***************************************************************************)
(* calculate_overall_score                                                 *)
(***************************************************************************)
\* the weights with on-page and performance exchanged (0.4, 0.3, 0.3)
WeightsSwapped == [performance |-> 4, technical_seo |-> 3, on_page_seo |-> 3]

\* the weights 0.3, 0.3, 0.4, in tenths
Weights == [performance |-> 3, technical_seo |-> 3, on_page_seo |-> 4]

RECURSIVE SumOver(_, _)
SumOver(f, S) ==
    IF S = {} THEN 0
    ELSE LET k == CHOOSE x \in S : TRUE
         IN  f[k] + SumOver(f, S \ {k})

\* the weights taken as percentages (30, 30, 40) instead of fractions
WeightedTotalPercent(sc) ==
    SumOver([key \in DOMAIN Weights |-> Get(sc, key, 0) * Weights[key] * 100],
            DOMAIN Weights)

\* sum(self.scores.get(key, 0) * weight ...), in hundredths of a point
WeightedTotal(sc) ==
    SumOver([key \in DOMAIN Weights |-> Get(sc, key, 0) * Weights[key]],
            DOMAIN Weights)

OverallScore(sc) == Round1(WeightedTotal(sc))

(***************************************************************************)
(* analyze_all                                                             *)
(***************************************************************************)
IsCritical(i) == i.severity = "critical"

IsWarning(i) == i.severity = "warning"

(***************************************************************************)
(* generate_summary.  The summary text is kept as its lines, grouped into  *)
(* the consecutive parts of the template; a line is a sequence of tokens.  *)
(* "(check)", "(red)", "(yellow)" and "->" stand for the check mark, the   *)
(* red and yellow circles and the arrow of the source.                     *)
(***************************************************************************)
\* f"{x:.1f}" of a score in tenths
Fmt1f(x) ==
    (IF x < 0 THEN <<"-">> ELSE <<>>)
    \o Digits((IF x < 0 THEN 0 - x ELSE x) \div 10)
    \o <<".", DigitChars[((IF x < 0 THEN 0 - x ELSE x) % 10) + 1]>>

TopN == 5

\* seq[:n]
Take(seq, n) == SubSeq(seq, 1, IF Len(seq) < n THEN Len(seq) ELSE n)

\* _format_list
FormatList(items) ==
    IF items = <<>> THEN << <<"  None identified">> >>
    ELSE [k \in 1..Len(items) |-> <<"  (check) ">> \o items[k]]

\* the one or two lines _format_issues writes for an issue
FormatIssue(issue) ==
    << <<"  ", IF issue.severity = "critical" THEN "(red)" ELSE "(yellow)",
         " [", issue.category, "] ">> \o issue.issue >>
    \o (IF Has(issue, "recommendation")
        THEN << <<"     -> ", issue.recommendation>> >>
        ELSE <<>>)

RECURSIVE FormatIssueLines(_)
FormatIssueLines(list) ==
    IF list = <<>> THEN <<>>
    ELSE FormatIssue(Head(list)) \o FormatIssueLines(Tail(list))

\* _format_issues
FormatIssues(list) ==
    IF list = <<>> THEN << <<"  None - Great job!">> >>
    ELSE FormatIssueLines(list)

\* self.issues[:5] in the order criticals first, then warnings
TopIssuesBySeverity ==
    Take(SelectSeq(issues, IsCritical) \o SelectSeq(issues, IsWarning), TopN)

\* self.issues[:5]
TopIssues == Take(issues, TopN)

GenerateSummary ==
    [title         |-> <<"SEO Analysis Summary for ", Get(data, "url", "Unknown")>>,
     overall       |-> <<"Overall SEO Score: ">>
                          \o Fmt1f(Get(scores, "overall", 0)) \o <<"/100">>,
     categories    |-> << <<"- Performance: ">>
                             \o Fmt1f(Get(scores, "performance", 0)) \o <<"/100">>,
                          <<"- Technical SEO: ">>
                             \o Fmt1f(Get(scores, "technical_seo", 0)) \o <<"/100">>,
                          <<"- On-Page SEO: ">>
                             \o Fmt1f(Get(scores, "on_page_seo", 0)) \o <<"/100">> >>,
     counts        |-> << <<"- Critical Issues: ">>
                             \o Str(Len(SelectSeq(issues, IsCritical))),
                          <<"- Warnings: ">>
                             \o Str(Len(SelectSeq(issues, IsWarning))) >>,
     strengths_head |-> <<"Top Strengths (">> \o Str(Len(strengths)) \o <<"):">>,
     strengths     |-> FormatList(Take(strengths, TopN)),
     issues        |-> FormatIssues(TopIssues),
     opportunities |-> FormatList(Take(opportunities, TopN))]

\* the fields of the returned dict that are new objects; the other fields
\* (category_scores, all_issues, opportunities, strengths) are the
\* analyzer's own scores, issues, opportunities and strengths objects
ReturnedCopy ==
    [overall_score   |-> Get(scores, "overall", 0),
     critical_issues |-> SelectSeq(issues, IsCritical),
     warnings        |-> SelectSeq(issues, IsWarning),
     summary         |-> GenerateSummary]

\* the dict the n-th call returned, as a reader sees it now
Analysis(n) ==
    [url             |-> Get(data, "url", "Unknown"),
     overall_score   |-> returned[n].overall_score,
     category_scores |-> scores,
     critical_issues |-> returned[n].critical_issues,
     warnings        |-> returned[n].warnings,
     all_issues      |-> issues,
     opportunities   |-> opportunities,
     strengths       |-> strengths,
     summary         |-> returned[n].summary]

Section(name) == Get(data, name, EmptyDict)

AnalyzeAllBegin ==
    /\ pc = "ready"
    /\ calls < MaxCalls
    /\ calls' = calls + 1
    /\ pc' = "page_speed"
    /\ UNCHANGED <<data, issues, opportunities, strengths, scores, returned, analyses,
                 runVars>>

\* the findings inserted at the front of the lists
Append3Prepend(out) ==
    /\ issues' = out.issues \o issues
    /\ strengths' = out.strengths \o strengths
    /\ opportunities' = out.opportunities \o opportunities

Append3(out) ==
    /\ issues' = issues \o out.issues
    /\ strengths' = strengths \o out.strengths
    /\ opportunities' = opportunities \o out.opportunities

AnalyzePageSpeed ==
    /\ pc = "page_speed"
    /\ Append3(PageSpeedFindings(Section("page_speed")))
    /\ scores' = PageSpeedScores(Section("page_speed"), scores)
    /\ pc' = "on_page_seo"
    /\ UNCHANGED <<data, calls, returned, analyses,
                 runVars>>

AnalyzeOnPageSeo ==
    /\ pc = "on_page_seo"
    /\ Append3(OnPageFindings(Section("on_page_seo")))
    /\ scores' = OnPageScores(Section("on_page_seo"), scores)
    /\ pc' = "technical_seo"
    /\ UNCHANGED <<data, calls, returned, analyses,
                 runVars>>

AnalyzeTechnicalSeo ==
    /\ pc = "technical_seo"
    /\ Append3(TechnicalFindings(Section("technical_seo")))
    /\ scores' = TechnicalScores(Section("technical_seo"), scores)
    /\ pc' = "overall"
    /\ UNCHANGED <<data, calls, returned, analyses,
                 runVars>>

CalculateOverallScore ==
    /\ pc = "overall"
    /\ scores' = Put(scores, "overall", OverallScore(scores))
    /\ pc' = "return"
    /\ UNCHANGED <<data, issues, opportunities, strengths, calls, returned, analyses,
                 runVars>>

AnalyzeAllReturn ==
    /\ pc = "return"
    /\ returned' = Append(returned, ReturnedCopy)
    /\ pc' = "ready"
    /\ UNCHANGED <<data, issues, opportunities, strengths, scores, calls, analyses,
                 runVars>>

\* a new analyzer whose three lists are the lists of the one before it (as
\* with lists held by the class, not by the instance)
NewAnalyzerSharedLists ==
    /\ pc = "ready"
    /\ calls >= 1
    /\ Len(analyses) + 1 < MaxAnalyzers
    /\ analyses' = Append(analyses, [calls |-> calls,
                                     analysis |-> Analysis(Len(returned))])
    /\ scores' = EmptyDict
    /\ calls' = 0
    /\ returned' = <<>>
    /\ UNCHANGED <<data, issues, opportunities, strengths, pc,
                 runVars>>

\* analyze_seo_data keeps the analysis the analyzer returned last and
\* creates the next analyzer, here on the same record: __init__ gives it
\* new empty lists and an empty scores dict
NewAnalyzer ==
    /\ pc = "ready"
    /\ calls >= 1
    /\ Len(analyses) + 1 < MaxAnalyzers
    /\ analyses' = Append(analyses, [calls |-> calls,
                                     analysis |-> Analysis(Len(returned))])
    /\ issues' = <<>>
    /\ opportunities' = <<>>
    /\ strengths' = <<>>
    /\ scores' = EmptyDict
    /\ calls' = 0
    /\ returned' = <<>>
    /\ UNCHANGED <<data, pc,
                 runVars>>

(***************************************************************************)
(* Input records.  SEOAnalyzer takes any dict (analyze_seo_data loads it   *)
(* from a JSON file), so the sections range over boundary values of every  *)
(* rule, over scores outside 0..100, over sections with an error field     *)
(* (alone or beside other fields), and over sections and fields that are   *)
(* absent.  Records is a union of slices: one section takes all its values *)
(* while the other two take a few.                                         *)
(***************************************************************************)
Url == "https://example.com"

AllSubdicts(d) == {Restrict(d, K) : K \in SUBSET (DOMAIN d)}

WithError(d) == Put(d, "error", "timeout")

\* scores in tenths; 49.3, 85.3 and 90.1 are not whole points
PerfValues == {0 - Pt(10), 0, Pt(49), 493, Pt(50), Pt(85), 853, Pt(89),
               Pt(90), 901, Pt(100), Pt(150)}

SeoValues == {0 - Pt(10), 0, Pt(79), 793, Pt(80), Pt(89), Pt(90), 901,
              Pt(100), Pt(150)}

SpeedGood == [performance_score |-> Pt(85), seo_score |-> Pt(90),
              mobile_friendly |-> TRUE]

SpeedOver == [performance_score |-> Pt(150), seo_score |-> Pt(150),
              mobile_friendly |-> TRUE]

SpeedSections ==
    {[performance_score |-> p, seo_score |-> s, mobile_friendly |-> m] :
        p \in PerfValues, s \in SeoValues, m \in BOOLEAN}
    \cup AllSubdicts(SpeedGood)
    \cup {WithError(EmptyDict), WithError(SpeedGood)}

SpeedFew == {SpeedGood, SpeedOver, WithError(EmptyDict)}

TitleValues == {0, 1, 29, 30, 45, 60, 61}

MetaValues == {0, 1, 119, 120, 145, 160, 161}

H1Values == {0, 1, 2}

\* <<total_images, images_without_alt>>
ImageValues == {<<0, 0>>, <<0, 1>>, <<10, 0>>, <<10, 1>>, <<10, 2>>,
                <<10, 3>>, <<5, 1>>, <<5, 2>>}

WordValues == {0, 299, 300, 1500, 1501, 1545}

LinkValues == {2, 3}

OnPageGood == [title_length |-> 55, meta_description_length |-> 150,
               h1_count |-> 1, total_images |-> 5, images_without_alt |-> 0,
               word_count |-> 1200, internal_links_count |-> 5]

OnPageWorst == [title_length |-> 0, meta_description_length |-> 0,
                h1_count |-> 0, total_images |-> 10, images_without_alt |-> 3,
                word_count |-> 0, internal_links_count |-> 0]

\* a good page whose title is 45 characters long
OnPageTitle45 == [title_length |-> 45, meta_description_length |-> 150,
                  h1_count |-> 1, total_images |-> 5, images_without_alt |-> 0,
                  word_count |-> 1200, internal_links_count |-> 5]

\* every combination of the fields the score depends on, and beside it the
\* word counts and link counts on pages that are good otherwise
OnPageSections ==
    {[title_length |-> t, meta_description_length |-> m, h1_count |-> h,
      total_images |-> im[1], images_without_alt |-> im[2],
      word_count |-> w, internal_links_count |-> 3] :
        t \in TitleValues, m \in MetaValues, h \in H1Values,
        im \in ImageValues, w \in {299, 300}}
    \cup {[title_length |-> t, meta_description_length |-> m, h1_count |-> 1,
           total_images |-> 5, images_without_alt |-> 0,
           word_count |-> w, internal_links_count |-> l] :
            t \in {45, 55}, m \in {145, 150}, w \in WordValues,
            l \in LinkValues}
    \cup AllSubdicts(OnPageGood)
    \cup {OnPageWorst, WithError(EmptyDict), WithError(OnPageWorst)}

OnPageFew == {OnPageGood, OnPageWorst, OnPageTitle45, WithError(EmptyDict),
              WithError(OnPageGood)}

StatusValues == {200, 404}

ResponseTimeValues == {0, 45, 450, 499, 500, 2000, 2001}

TechGood == [is_https |-> TRUE, status_code |-> 200, response_time_ms |-> 450,
             has_robots_txt |-> TRUE, has_sitemap |-> TRUE,
             has_compression |-> TRUE]

TechBad == [is_https |-> FALSE, status_code |-> 404, response_time_ms |-> 2001,
            has_robots_txt |-> FALSE, has_sitemap |-> FALSE,
            has_compression |-> FALSE]

TechSections ==
    {[is_https |-> h, status_code |-> c, response_time_ms |-> r,
      has_robots_txt |-> ro, has_sitemap |-> si, has_compression |-> co] :
        h \in BOOLEAN, c \in StatusValues, r \in ResponseTimeValues,
        ro \in BOOLEAN, si \in BOOLEAN, co \in BOOLEAN}
    \cup AllSubdicts(TechGood)
    \cup {WithError(EmptyDict), WithError(TechGood)}

Record(s, o, t) ==
    [url |-> Url, page_speed |-> s, on_page_seo |-> o, technical_seo |-> t]

\* the sample record of test_system.py
TestRecord ==
    Record(SpeedGood,
           Restrict(OnPageGood, (DOMAIN OnPageGood) \ {"internal_links_count"}),
           Restrict(TechGood, (DOMAIN TechGood) \ {"has_compression"}))

\* an on-page section with two critical issues and three opportunities
OnPageManyFindings ==
    [title_length |-> 0, meta_description_length |-> 0, h1_count |-> 1,
     total_images |-> 10, images_without_alt |-> 1, word_count |-> 1200,
     internal_links_count |-> 0]

\* a record with eight issues and six opportunities
ManyFindingsRecord ==
    Record([performance_score |-> Pt(49), seo_score |-> Pt(79),
            mobile_friendly |-> FALSE],
           OnPageManyFindings, TechBad)

Records ==
    {Record(s, o, t) : s \in SpeedSections, o \in OnPageFew,
                       t \in {TechGood, TechBad}}
    \cup {Record(s, o, t) : s \in {SpeedGood}, o \in OnPageSections, t \in {TechGood}}
    \cup {Record(s, o, t) : s \in SpeedFew,
                            o \in {OnPageTitle45, WithError(OnPageGood)},
                            t \in TechSections}
    \cup AllSubdicts(Record(SpeedGood, OnPageGood, TechGood))
    \cup {TestRecord, ManyFindingsRecord}

(***************************************************************************)
(* The analyzer: __init__, then analyze_all, step by step                  *)
(***************************************************************************)
\* no run of SEOAutomation is under way: an analyzer used on its own
NoRun ==
    /\ rpc = "idle"
    /\ args = [urls |-> <<>>, skip_ai |-> FALSE]
    /\ config = [target_urls |-> <<>>, api_key |-> ""]
    /\ all_data = <<>>
    /\ loop_index = 1
    /\ skip_ai = FALSE
    /\ ai_insights_list = <<>>
    /\ model_calls = 0
    /\ generated_reports = <<>>
    /\ avg_score = <<>>

Init ==
    /\ data \in Records
    /\ issues = <<>>
    /\ opportunities = <<>>
    /\ strengths = <<>>
    /\ scores = EmptyDict
    /\ pc = "ready"
    /\ calls = 0
    /\ returned = <<>>
    /\ analyses = <<>>
    /\ NoRun

Next ==
    \/ AnalyzeAllBegin
    \/ AnalyzePageSpeed
    \/ AnalyzeOnPageSeo
    \/ AnalyzeTechnicalSeo
    \/ CalculateOverallScore
    \/ AnalyzeAllReturn

Spec == Init /\ [][Next]_vars

(***************************************************************************)
(* One record analyzed by several analyzers, created one after the other   *)
(***************************************************************************)
FreshRecords ==
    {Record(sp, o, t) : sp \in SpeedFew, o \in OnPageFew,
                        t \in {TechGood, TechBad}}
    \cup AllSubdicts(Record(SpeedGood, OnPageGood, TechGood))
    \cup {TestRecord, ManyFindingsRecord}

InitFresh ==
    /\ data \in FreshRecords
    /\ issues = <<>>
    /\ opportunities = <<>>
    /\ strengths = <<>>
    /\ scores = EmptyDict
    /\ pc = "ready"
    /\ calls = 0
    /\ returned = <<>>
    /\ analyses = <<>>
    /\ NoRun

NextFresh ==
    \/ Next
    \/ NewAnalyzer

SpecFresh == InitFresh /\ [][NextFresh]_vars

(***************************************************************************)
(* SEOAutomation.run: collection, analysis, insights, reports              *)
(***************************************************************************)
analyzerVars == <<data, issues, opportunities, strengths, scores, pc, calls,
                  returned>>

\* at most this many URLs are passed to a run
MaxUrls == 2

RunUrls == {"https://example.com", "https://www.wikipedia.org"}

\* urlparse(url).netloc.replace('.', '_'), as a table over RunUrls (a URL is
\* one string in the model)
DomainOf(url) ==
    IF url = "https://example.com" THEN "example_com" ELSE "www_wikipedia_org"

UrlLists ==
    UNION {[1..n -> RunUrls] : n \in 0..MaxUrls}

\* target_urls = urls or self.config.get('target_urls', [])
TargetUrls ==
    IF args.urls # <<>> THEN args.urls ELSE config.target_urls

\* what collect_all_data can return for a URL: the record of a good page
\* or of a page with many findings
CollectedFor(url) ==
    {[Record(SpeedGood, OnPageGood, TechGood) EXCEPT !.url = url],
     [ManyFindingsRecord EXCEPT !.url = url]}

\* the record appended by the except branch of collect_seo_data
ErrorRecord(url) == [url |-> url, error |-> "collection failed"]

\* if not target_urls: return
RunStart ==
    /\ rpc = "start"
    /\ rpc' = IF TargetUrls = <<>> THEN "returned" ELSE "collect"
    /\ UNCHANGED <<analyzerVars, analyses, args, config, all_data, loop_index,
                   skip_ai, ai_insights_list, model_calls, generated_reports,
                   avg_score>>

\* what one URL adds to all_data when its data was collected and save_data
\* raised: the data, appended before the save, and the error record of the
\* except branch
CollectFailedSave(url, d) == <<d, ErrorRecord(url)>>

\* one iteration of the loop of collect_seo_data: collect_all_data raises,
\* or returns the data, which is appended, and save_data succeeds or raises
CollectUrl ==
    /\ rpc = "collect"
    /\ loop_index <= Len(TargetUrls)
    /\ LET url == TargetUrls[loop_index]
       IN  \/ all_data' = Append(all_data, ErrorRecord(url))
           \/ \E d \in CollectedFor(url) :
                 \/ all_data' = Append(all_data, d)
                 \/ all_data' = all_data \o CollectFailedSave(url, d)
    /\ loop_index' = loop_index + 1
    /\ UNCHANGED <<analyzerVars, analyses, rpc, args, config, skip_ai,
                   ai_insights_list, model_calls, generated_reports, avg_score>>

\* the combined file is written (or raises) and all_data returned to run,
\* which returns when the list is empty
CollectReturn ==
    /\ rpc = "collect"
    /\ loop_index > Len(TargetUrls)
    /\ \E written \in BOOLEAN :
          rpc' = IF ~written THEN "raised"
                 ELSE IF all_data = <<>> THEN "returned"
                 ELSE "analyze"
    /\ loop_index' = 1
    /\ UNCHANGED <<analyzerVars, analyses, args, config, all_data, skip_ai,
                   ai_insights_list, model_calls, generated_reports, avg_score>>

\* for data in collected_data: a record with a top-level error is skipped
RunSkipErrorRecord ==
    /\ rpc = "analyze"
    /\ loop_index <= Len(all_data)
    /\ Has(all_data[loop_index], "error")
    /\ loop_index' = loop_index + 1
    /\ UNCHANGED <<analyzerVars, analyses, rpc, args, config, all_data, skip_ai,
                   ai_insights_list, model_calls, generated_reports, avg_score>>

\* analyzer = SEOAnalyzer(data)
RunCreateAnalyzer ==
    /\ rpc = "analyze"
    /\ loop_index <= Len(all_data)
    /\ ~Has(all_data[loop_index], "error")
    /\ data' = all_data[loop_index]
    /\ issues' = <<>>
    /\ opportunities' = <<>>
    /\ strengths' = <<>>
    /\ scores' = EmptyDict
    /\ calls' = 0
    /\ returned' = <<>>
    /\ rpc' = "analyzing"
    /\ UNCHANGED <<pc, analyses, args, config, all_data, loop_index, skip_ai,
                   ai_insights_list, model_calls, generated_reports, avg_score>>

\* analysis = analyzer.analyze_all(), step by step
RunAnalyzeAll ==
    /\ rpc = "analyzing"
    /\ \/ calls = 0 /\ AnalyzeAllBegin
       \/ AnalyzePageSpeed
       \/ AnalyzeOnPageSeo
       \/ AnalyzeTechnicalSeo
       \/ CalculateOverallScore
       \/ AnalyzeAllReturn

\* analyses.append(analysis)
RunAppendAnalysis ==
    /\ rpc = "analyzing"
    /\ pc = "ready"
    /\ calls = 1
    /\ analyses' = Append(analyses, [calls |-> 1, analysis |-> Analysis(1)])
    /\ loop_index' = loop_index + 1
    /\ rpc' = "analyze"
    /\ UNCHANGED <<analyzerVars, args, config, all_data, skip_ai,
                   ai_insights_list, model_calls, generated_reports, avg_score>>

\* after the loop the analyses are written to the analysis file, which
\* raises or succeeds
RunSaveAnalyses ==
    /\ rpc = "analyze"
    /\ loop_index > Len(all_data)
    /\ \E written \in BOOLEAN : rpc' = IF written THEN "insights" ELSE "raised"
    /\ UNCHANGED <<analyzerVars, analyses, args, config, all_data, loop_index,
                   skip_ai, ai_insights_list, model_calls, generated_reports,
                   avg_score>>

\* the api key of the shipped configuration file
PlaceholderKey == "YOUR_GEMINI_API_KEY_HERE"

\* os.getenv('GEMINI_API_KEY') or self.config.get('gemini_api_key'): absent
\* (the empty string here), the placeholder, or a key
ApiKeys == {"", PlaceholderKey, "key"}

\* _parse_ai_response: the insight record of a model call that returned
\* text (the text itself is the model's and stands as one string)
ParseAiResponse(a) ==
    [url               |-> a.url,
     ai_insights       |-> "text of the model",
     overall_score     |-> a.overall_score,
     insights_metadata |->
        [model                |-> "gemini-pro",
         analysis_version     |-> "1.0",
         issues_analyzed      |-> Len(a.all_issues),
         strengths_identified |-> Len(a.strengths)]]

\* _generate_fallback_insights, as the parts of its text
FallbackInsights(a) ==
    [url        |-> a.url,
     score      |-> a.overall_score,
     assessment |-> IF a.overall_score >= Pt(80) THEN "strong foundation"
                    ELSE IF a.overall_score >= Pt(60) THEN "several areas need attention"
                    ELSE "significant improvements are needed",
     critical   |-> Take(SelectSeq(a.all_issues, IsCritical), 3),
     quick_wins |-> Take(a.opportunities, 3)]

\* the record generate_insights returns when the model call raised
InsightsError(a) ==
    [error |-> "model call failed", fallback_insights |-> FallbackInsights(a)]

\* the insights used for an analysis that has none at its index
NotAvailable ==
    [ai_insights |-> "AI insights not available. Run with Gemini API key configured."]

\* if not skip_ai is false: the step is skipped by the flag
RunInsightsSkipped ==
    /\ rpc = "insights"
    /\ skip_ai
    /\ rpc' = "reports"
    /\ UNCHANGED <<analyzerVars, analyses, args, config, all_data, loop_index,
                   skip_ai, ai_insights_list, model_calls, generated_reports,
                   avg_score>>

\* the api key is missing or the placeholder: skip_ai = True
RunInsightsNoKey ==
    /\ rpc = "insights"
    /\ ~skip_ai
    /\ config.api_key \in {"", PlaceholderKey}
    /\ skip_ai' = TRUE
    /\ rpc' = "reports"
    /\ UNCHANGED <<analyzerVars, analyses, args, config, all_data, loop_index,
                   ai_insights_list, model_calls, generated_reports, avg_score>>

\* generator = GeminiInsightsGenerator(api_key): built, or raises and the
\* except branch of run sets skip_ai
RunCreateGenerator ==
    /\ rpc = "insights"
    /\ ~skip_ai
    /\ config.api_key \notin {"", PlaceholderKey}
    /\ \E built \in BOOLEAN :
          /\ rpc' = IF built THEN "generating" ELSE "reports"
          /\ skip_ai' = ~built
    /\ UNCHANGED <<analyzerVars, analyses, args, config, all_data, loop_index,
                   ai_insights_list, model_calls, generated_reports, avg_score>>

\* the insight loop outside any try: a generate_insights call that raises
\* ends the run
RunGenerateInsightsUncaught ==
    /\ rpc = "generating"
    /\ Len(ai_insights_list) < Len(analyses)
    /\ model_calls' = model_calls + 1
    /\ LET a == analyses[Len(ai_insights_list) + 1].analysis
       IN  \/ /\ ai_insights_list' = Append(ai_insights_list, ParseAiResponse(a))
              /\ UNCHANGED <<rpc, skip_ai>>
           \/ /\ ai_insights_list' = Append(ai_insights_list, InsightsError(a))
              /\ UNCHANGED <<rpc, skip_ai>>
           \/ /\ rpc' = "raised"
              /\ UNCHANGED <<skip_ai, ai_insights_list>>
    /\ UNCHANGED <<analyzerVars, analyses, args, config, all_data, loop_index,
                   generated_reports, avg_score>>

\* one iteration of the insight loop: generate_insights returns the parsed
\* text, returns the error record when the model call raised, or raises
\* itself, which ends the step in the except branch of run
RunGenerateInsights ==
    /\ rpc = "generating"
    /\ Len(ai_insights_list) < Len(analyses)
    /\ model_calls' = model_calls + 1
    /\ LET a == analyses[Len(ai_insights_list) + 1].analysis
       IN  \/ /\ ai_insights_list' = Append(ai_insights_list, ParseAiResponse(a))
              /\ UNCHANGED <<rpc, skip_ai>>
           \/ /\ ai_insights_list' = Append(ai_insights_list, InsightsError(a))
              /\ UNCHANGED <<rpc, skip_ai>>
           \/ /\ rpc' = "reports"
              /\ skip_ai' = TRUE
              /\ UNCHANGED ai_insights_list
    /\ UNCHANGED <<analyzerVars, analyses, args, config, all_data, loop_index,
                   generated_reports, avg_score>>

\* after the loop: with more than one analysis the comparison is generated
\* and printed, or raises into the except branch of run
RunComparison ==
    /\ rpc = "generating"
    /\ Len(ai_insights_list) = Len(analyses)
    /\ \E raised \in BOOLEAN :
          /\ raised => Len(analyses) > 1
          /\ skip_ai' = raised
    /\ rpc' = "reports"
    /\ UNCHANGED <<analyzerVars, analyses, args, config, all_data, loop_index,
                   ai_insights_list, model_calls, generated_reports, avg_score>>

ReportFormats == <<"markdown", "html", "json">>

\* the report writer (generate_full_report, then save_report): the file it
\* writes for an analysis and its insights in a format, as its name and
\* what is rendered into it
ReportFile(a, ai_insights, format) ==
    [name        |-> <<"seo_report_", DomainOf(a.url), format>>,
     url         |-> a.url,
     overall_score |-> a.overall_score,
     ai_insights |-> ai_insights]

\* one iteration of the report loop: the insights at the index of the
\* analysis, or the fixed text, and the three files in the order markdown,
\* html, json; the writer may raise
RunReport ==
    /\ rpc = "reports"
    /\ Len(generated_reports) < 3 * Len(analyses)
    /\ LET i  == (Len(generated_reports) \div 3) + 1
           a  == analyses[i].analysis
           ai == IF i <= Len(ai_insights_list) THEN ai_insights_list[i]
                 ELSE NotAvailable
       IN  \/ /\ generated_reports' =
                    generated_reports
                    \o [k \in 1..3 |-> ReportFile(a, ai, ReportFormats[k])]
              /\ UNCHANGED rpc
           \/ /\ rpc' = "raised"
              /\ UNCHANGED generated_reports
    /\ UNCHANGED <<analyzerVars, analyses, args, config, all_data, loop_index,
                   skip_ai, ai_insights_list, model_calls, avg_score>>

RECURSIVE SumScores(_)
\* sum(a.get('overall_score', 0) for a in analyses)
SumScores(list) ==
    IF list = <<>> THEN 0
    ELSE Head(list).analysis.overall_score + SumScores(Tail(list))

\* the end of run with the average computed whatever the number of
\* analyses: the division raises when there is none
RunReturnAlwaysAverage ==
    /\ rpc = "reports"
    /\ Len(generated_reports) = 3 * Len(analyses)
    /\ avg_score' = <<SumScores(analyses), Len(analyses)>>
    /\ rpc' = IF analyses = <<>> THEN "raised" ELSE "done"
    /\ UNCHANGED <<analyzerVars, analyses, args, config, all_data, loop_index,
                   skip_ai, ai_insights_list, model_calls, generated_reports>>

\* the end of run: the average is computed if there is an analysis, and
\* the results are stored and returned
RunReturn ==
    /\ rpc = "reports"
    /\ Len(generated_reports) = 3 * Len(analyses)
    /\ avg_score' = IF analyses # <<>>
                    THEN <<SumScores(analyses), Len(analyses)>>
                    ELSE <<>>
    /\ rpc' = "done"
    /\ UNCHANGED <<analyzerVars, analyses, args, config, all_data, loop_index,
                   skip_ai, ai_insights_list, model_calls, generated_reports>>

\* self.results, the value run returns
Results ==
    [analyses |-> [k \in DOMAIN analyses |-> analyses[k].analysis],
     reports  |-> generated_reports]

InitRun ==
    /\ data = EmptyDict
    /\ issues = <<>>
    /\ opportunities = <<>>
    /\ strengths = <<>>
    /\ scores = EmptyDict
    /\ pc = "ready"
    /\ calls = 0
    /\ returned = <<>>
    /\ analyses = <<>>
    /\ rpc = "start"
    /\ args \in [urls : UrlLists, skip_ai : BOOLEAN]
    /\ config \in [target_urls : {<<>>, <<"https://www.wikipedia.org">>},
                   api_key : ApiKeys]
    /\ all_data = <<>>
    /\ loop_index = 1
    /\ skip_ai = args.skip_ai
    /\ ai_insights_list = <<>>
    /\ model_calls = 0
    /\ generated_reports = <<>>
    /\ avg_score = <<>>

NextRun ==
    \/ RunStart
    \/ CollectUrl
    \/ CollectReturn
    \/ RunSkipErrorRecord
    \/ RunCreateAnalyzer
    \/ RunAnalyzeAll
    \/ RunAppendAnalysis
    \/ RunSaveAnalyses
    \/ RunInsightsSkipped
    \/ RunInsightsNoKey
    \/ RunCreateGenerator
    \/ RunGenerateInsights
    \/ RunComparison
    \/ RunReport
    \/ RunReturn

SpecRun == InitRun /\ [][NextRun]_vars

(***************************************************************************)
(* Vocabulary of the properties                                            *)
(***************************************************************************)
\* analyze_all has returned and no call is in progress
Done == pc = "ready" /\ calls >= 1

\* the dict returned by the latest call
Last == Analysis(Len(returned))

NoError(name) == ~Has(Section(name), "error")

\* what the step being taken appends to each list
NewIssues == SubSeq(issues', Len(issues) + 1, Len(issues'))

NewStrengths == SubSeq(strengths', Len(strengths) + 1, Len(strengths'))

NewOpportunities ==
    SubSeq(opportunities', Len(opportunities) + 1, Len(opportunities'))

\* the step only appends
AppendOnly ==
    /\ Len(issues') >= Len(issues)
    /\ SubSeq(issues', 1, Len(issues)) = issues
    /\ Len(strengths') >= Len(strengths)
    /\ SubSeq(strengths', 1, Len(strengths)) = strengths
    /\ Len(opportunities') >= Len(opportunities)
    /\ SubSeq(opportunities', 1, Len(opportunities)) = opportunities

Count(seq, Test(_)) == Len(SelectSeq(seq, Test))

Abs(n) == IF n < 0 THEN 0 - n ELSE n

\* analyze_on_page_seo has run at least once on this instance
OnPageAnalyzed ==
    \/ pc \in {"technical_seo", "overall", "return"}
    \/ calls >= 2
    \/ Done

(***************************************************************************)
(* C1.  After analyze_all the overall score is round(0.3*P + 0.3*T +       *)
(* 0.4*O, 1), P, T and O being the performance, technical_seo and          *)
(* on_page_seo category scores, each 0 when it was not set.  In tenths:    *)
(* 3P + 3T + 4O is the total in hundredths, and the overall score is the   *)
(* number of tenths nearest to it (no total of the model is a tie).        *)
(***************************************************************************)
C1_OverallIsWeightedSum ==
    Done =>
        LET P == Get(Last.category_scores, "performance", 0)
            T == Get(Last.category_scores, "technical_seo", 0)
            O == Get(Last.category_scores, "on_page_seo", 0)
            total == 3 * P + 3 * T + 4 * O
        IN  /\ Abs(10 * Last.overall_score - total) < 5
            /\ Last.category_scores["overall"] = Last.overall_score
            /\ Has(Last.category_scores, "performance") <=> NoError("page_speed")
            /\ Has(Last.category_scores, "technical_seo") <=> NoError("page_speed")
            /\ Has(Last.category_scores, "on_page_seo") <=> NoError("on_page_seo")

\* a result with a category score that was not set, whose total (85.3, 90,
\* unset: 52.59) is not a whole number of tenths
C1_Witness ==
    /\ Done
    /\ Get(scores, "performance", 0) = 853
    /\ Get(scores, "technical_seo", 0) = Pt(90)
    /\ ~Has(scores, "on_page_seo")
    /\ Last.overall_score = 526

(***************************************************************************)
(* C2.  As claimed: for all inputs the overall score lies in [0,100],      *)
(* also when performance_score or seo_score is below 0 or above 100.       *)
(***************************************************************************)
C2_OverallInRange ==
    Done => Last.overall_score >= 0 /\ Last.overall_score <= Pt(100)

ValidSpeedScores ==
    \/ ~NoError("page_speed")
    \/ /\ Get(Section("page_speed"), "performance_score", 0) >= 0
       /\ Get(Section("page_speed"), "performance_score", 0) <= Pt(100)
       /\ Get(Section("page_speed"), "seo_score", 0) >= 0
       /\ Get(Section("page_speed"), "seo_score", 0) <= Pt(100)

(***************************************************************************)
(* C2, amended.  The overall score lies in [0,100] whenever the page-speed *)
(* section carries an error or its performance_score and seo_score lie in  *)
(* [0,100]; no term is clamped, so a score outside [0,100] carries over    *)
(* into the overall score.                                                 *)
(***************************************************************************)
C2_OverallInRangeForValidScores ==
    (Done /\ ValidSpeedScores) =>
        Last.overall_score >= 0 /\ Last.overall_score <= Pt(100)

\* the upper end is reached: 100, 100 and 100 give 100
C2_Witness ==
    /\ Done
    /\ ValidSpeedScores
    /\ Get(scores, "performance", 0) = Pt(100)
    /\ Get(scores, "technical_seo", 0) = Pt(100)
    /\ Get(scores, "on_page_seo", 0) = Pt(100)
    /\ Last.overall_score = Pt(100)

(***************************************************************************)
(* C3.  Without a page-speed error, analyze_page_speed sets performance to *)
(* performance_score and technical_seo to seo_score; analyze_technical_seo *)
(* leaves every category score as it was, whatever the technical section   *)
(* holds; so after analyze_all technical_seo is the seo_score of the       *)
(* page-speed section, or unset when that section carries an error.        *)
(***************************************************************************)
C3_ScoreSources ==
    /\ [][ /\ (pc = "page_speed" /\ NoError("page_speed")) =>
                /\ Has(scores', "performance")
                /\ Has(scores', "technical_seo")
                /\ scores'["performance"] =
                       Get(Section("page_speed"), "performance_score", 0)
                /\ scores'["technical_seo"] =
                       Get(Section("page_speed"), "seo_score", 0)
           /\ (pc = "technical_seo") => (scores' = scores) ]_vars
    /\ [](Done =>
            IF NoError("page_speed")
            THEN /\ Has(scores, "technical_seo")
                 /\ scores["technical_seo"] =
                        Get(Section("page_speed"), "seo_score", 0)
            ELSE ~Has(scores, "technical_seo"))

\* analyze_technical_seo has run on a section full of failures and the
\* technical_seo score is still the seo_score 90
C3_Witness ==
    /\ pc = "overall"
    /\ Section("technical_seo") = TechBad
    /\ NoError("page_speed")
    /\ Get(Section("page_speed"), "seo_score", 0) = Pt(90)
    /\ scores["technical_seo"] = Pt(90)
    /\ Len(issues) >= 3

IsErrorStep(step, name) == pc = step /\ ~NoError(name)

(***************************************************************************)
(* C4.  For each of the three sections: when the section carries an error  *)
(* field, its analysis appends exactly one issue, a warning, appends no    *)
(* strength and no opportunity and changes nothing else, whatever other    *)
(* fields the section holds; in the result the category scores of that     *)
(* section (performance and technical_seo for page speed, on_page_seo for  *)
(* on-page, none for technical) are unset and read as 0.                   *)
(***************************************************************************)
C4_ErrorSection ==
    /\ [][ (\/ IsErrorStep("page_speed", "page_speed")
            \/ IsErrorStep("on_page_seo", "on_page_seo")
            \/ IsErrorStep("technical_seo", "technical_seo")) =>
                /\ AppendOnly
                /\ Len(NewIssues) = 1
                /\ NewIssues[1].severity = "warning"
                /\ Has(NewIssues[1], "details")
                /\ ~Has(NewIssues[1], "recommendation")
                /\ NewStrengths = <<>>
                /\ NewOpportunities = <<>>
                /\ scores' = scores ]_vars
    /\ [](Done =>
            /\ ~NoError("page_speed") =>
                  /\ Get(Last.category_scores, "performance", 0) = 0
                  /\ Get(Last.category_scores, "technical_seo", 0) = 0
            /\ ~NoError("on_page_seo") =>
                  Get(Last.category_scores, "on_page_seo", 0) = 0)

\* a first call on a record whose three sections all carry an error, the
\* on-page one beside its ordinary fields
C4_Witness ==
    /\ Done
    /\ calls = 1
    /\ ~NoError("page_speed")
    /\ Section("on_page_seo") = WithError(OnPageGood)
    /\ ~NoError("technical_seo")
    /\ Len(issues) = 3
    /\ \A i \in 1..3 : issues[i].severity = "warning"
    /\ strengths = <<>>
    /\ opportunities = <<>>
    /\ Last.overall_score = 0

(***************************************************************************)
(* C5.  For an on-page section without error the on-page score is          *)
(* max(0, 100 - D), D being the sum of the penalties whose condition       *)
(* holds: 20 if title_length = 0, else 10 if it is < 30 or > 60; 20 if     *)
(* meta_description_length = 0, else 10 if it is < 120 or > 160; 15 if     *)
(* h1_count # 1; 10 if images_without_alt is more than 20% of              *)
(* total_images; 15 if word_count < 300.  D is a sum, so the penalties     *)
(* apply independently of each other and of their order.                   *)
(***************************************************************************)
C5_OnPageScoreFormula ==
    (OnPageAnalyzed /\ NoError("on_page_seo")) =>
        LET onpage == Section("on_page_seo")
            title == Get(onpage, "title_length", 0)
            meta == Get(onpage, "meta_description_length", 0)
            h1 == Get(onpage, "h1_count", 0)
            total == Get(onpage, "total_images", 0)
            noalt == Get(onpage, "images_without_alt", 0)
            words == Get(onpage, "word_count", 0)
            D == (IF title = 0 THEN 20
                  ELSE IF title < 30 \/ title > 60 THEN 10 ELSE 0)
               + (IF meta = 0 THEN 20
                  ELSE IF meta < 120 \/ meta > 160 THEN 10 ELSE 0)
               + (IF h1 # 1 THEN 15 ELSE 0)
               + (IF 100 * noalt > 20 * total THEN 10 ELSE 0)
               + (IF words < 300 THEN 15 ELSE 0)
        IN  /\ Has(scores, "on_page_seo")
            /\ scores["on_page_seo"] = Pt(IF 100 - D > 0 THEN 100 - D ELSE 0)

\* three penalties at once: short title, two H1, 3 of 10 images without alt
C5_Witness ==
    /\ OnPageAnalyzed
    /\ NoError("on_page_seo")
    /\ Get(Section("on_page_seo"), "title_length", 0) = 29
    /\ Get(Section("on_page_seo"), "h1_count", 0) = 2
    /\ Get(Section("on_page_seo"), "images_without_alt", 0) = 3
    /\ Get(scores, "on_page_seo", 0) = Pt(65)

(***************************************************************************)
(* C6.  The on-page score, whenever it is set, lies in [0,100], and the    *)
(* total deduction (100 minus the score before its floor) never exceeds    *)
(* 90, so that the floor never acts.                                       *)
(***************************************************************************)
C6_OnPageScoreRange ==
    Has(scores, "on_page_seo") =>
        LET deduction == 100 - OnPageRawScore(Section("on_page_seo"))
        IN  /\ scores["on_page_seo"] >= 0
            /\ scores["on_page_seo"] <= Pt(100)
            /\ deduction >= 0
            /\ deduction <= 90
            /\ scores["on_page_seo"] = Pt(100 - deduction)

\* every penalty applies at once: the deduction is 80 and the score 20
C6_Witness ==
    /\ Has(scores, "on_page_seo")
    /\ Section("on_page_seo") = OnPageWorst
    /\ OnPageRawScore(Section("on_page_seo")) = 20
    /\ scores["on_page_seo"] = Pt(20)

IsTitleIssue(i) ==
    i.issue[1] \in {"Missing title tag", "Title tag too short: ",
                    "Title tag too long: "}

IsTitleStrength(s) == s[1] = "Good title length: "

OnPageStep == pc = "on_page_seo" /\ NoError("on_page_seo")

(***************************************************************************)
(* C7.  For every title_length exactly one title bucket fires in           *)
(* analyze_on_page_seo: 0 gives one critical issue (missing title), 1..29  *)
(* one warning (too short), 30..60 one strength, above 60 one warning (too *)
(* long); so title_length = 0 gives a critical issue and no title warning. *)
(***************************************************************************)
C7_TitleBuckets ==
    [][ OnPageStep =>
          LET t == Get(Section("on_page_seo"), "title_length", 0)
              ti == SelectSeq(NewIssues, IsTitleIssue)
              ts == SelectSeq(NewStrengths, IsTitleStrength)
          IN  /\ AppendOnly
              /\ Len(ti) + Len(ts) = 1
              /\ (t = 0) =>
                    /\ Len(ti) = 1
                    /\ ti[1].severity = "critical"
                    /\ ti[1].issue = <<"Missing title tag">>
              /\ (t >= 1 /\ t <= 29) =>
                    /\ Len(ti) = 1
                    /\ ti[1].severity = "warning"
                    /\ ti[1].issue[1] = "Title tag too short: "
              /\ (t >= 30 /\ t <= 60) => Len(ts) = 1
              /\ (t > 60) =>
                    /\ Len(ti) = 1
                    /\ ti[1].severity = "warning"
                    /\ ti[1].issue[1] = "Title tag too long: " ]_vars

\* a first on-page analysis of a section without title: one critical issue
C7_Witness ==
    /\ pc = "technical_seo"
    /\ calls = 1
    /\ NoError("on_page_seo")
    /\ Get(Section("on_page_seo"), "title_length", 0) = 0
    /\ Count(issues, IsTitleIssue) = 1
    /\ \E k \in 1..Len(issues) :
          issues[k].issue = <<"Missing title tag">> /\ issues[k].severity = "critical"

\* the text holds the digits 4 5 one after the other
Mentions45(text) ==
    \E k \in 1..(Len(text) - 1) : text[k] = "4" /\ text[k + 1] = "5"

IsGoodTitle45(s) == s = <<"Good title length: ", "4", "5", " characters">>

Title45 ==
    /\ Done
    /\ calls = 1
    /\ NoError("on_page_seo")
    /\ Get(Section("on_page_seo"), "title_length", 0) = 45

(***************************************************************************)
(* C8.  As claimed: for every record whose on-page section has             *)
(* title_length = 45 the result holds exactly one strength entry that      *)
(* mentions "45" and no title-related issue, whatever the other fields.    *)
(***************************************************************************)
C8_OneStrengthMentions45 ==
    Title45 =>
        /\ Count(Last.strengths, Mentions45) = 1
        /\ Count(Last.all_issues, IsTitleIssue) = 0

(***************************************************************************)
(* C8, amended.  For every record whose on-page section has no error and   *)
(* title_length = 45, the result of the analyzer's analyze_all holds       *)
(* exactly one title strength, "Good title length: 45 characters", and no  *)
(* title-related issue; strengths of other rules may mention "45" as well  *)
(* (response_time_ms 45 or 450, meta_description_length 145, word_count    *)
(* 1545), so the strengths mentioning "45" are one or more.                *)
(***************************************************************************)
C8_OneTitleStrength45 ==
    Title45 =>
        /\ Count(Last.strengths, IsTitleStrength) = 1
        /\ Count(Last.strengths, IsGoodTitle45) = 1
        /\ Count(Last.strengths, Mentions45) >= 1
        /\ Count(Last.all_issues, IsTitleIssue) = 0

\* title_length 45 beside response_time_ms 450: two strengths mention "45"
C8_Witness ==
    /\ Title45
    /\ Get(Section("technical_seo"), "response_time_ms", 0) = 450
    /\ Count(Last.strengths, IsGoodTitle45) = 1
    /\ Count(Last.strengths, Mentions45) >= 2

IsImageIssue(i) == i.category = "Image Optimization"

IsImageOpportunity(o) == o[1] = "Add alt text to "

IsImageStrength(s) == s = <<"All images have alt text">>

(***************************************************************************)
(* C9.  Alt-text rule of analyze_on_page_seo.  With total_images > 0: a    *)
(* ratio images_without_alt / total_images above 20% gives one warning     *)
(* issue and no opportunity, a ratio in (0, 20%] one opportunity and no    *)
(* issue, a ratio of 0 one strength.  With total_images = 0 nothing about  *)
(* images is raised.  A ratio of exactly 20% is an opportunity.            *)
(***************************************************************************)
C9_AltTextRule ==
    [][ OnPageStep =>
          LET n == Get(Section("on_page_seo"), "total_images", 0)
              a == Get(Section("on_page_seo"), "images_without_alt", 0)
              ii == SelectSeq(NewIssues, IsImageIssue)
              io == SelectSeq(NewOpportunities, IsImageOpportunity)
              is == SelectSeq(NewStrengths, IsImageStrength)
              counts == <<Len(ii), Len(io), Len(is)>>
          IN  /\ (n > 0 /\ 5 * a > n) =>
                    counts = <<1, 0, 0>> /\ ii[1].severity = "warning"
              /\ (n > 0 /\ a > 0 /\ 5 * a <= n) => counts = <<0, 1, 0>>
              /\ (n > 0 /\ a = 0) => counts = <<0, 0, 1>>
              /\ (n = 0) => counts = <<0, 0, 0>> ]_vars

\* 2 of 10 images, exactly 20%: an opportunity and no image issue
C9_Witness ==
    /\ pc = "technical_seo"
    /\ calls = 1
    /\ NoError("on_page_seo")
    /\ Get(Section("on_page_seo"), "total_images", 0) = 10
    /\ Get(Section("on_page_seo"), "images_without_alt", 0) = 2
    /\ Count(opportunities, IsImageOpportunity) = 1
    /\ Count(issues, IsImageIssue) = 0

IsMetaIssue(i) ==
    i.issue[1] \in {"Missing meta description", "Meta description too short: ",
                    "Meta description too long: "}

IsMetaStrength(s) == s[1] = "Good meta description length: "

(***************************************************************************)
(* C10.  For every meta_description_length exactly one meta-description    *)
(* outcome is produced: 0 gives one critical issue, 1..119 one warning,    *)
(* 120..160 one strength, above 160 one warning; 120 and 160 are           *)
(* strengths.                                                              *)
(***************************************************************************)
C10_MetaBuckets ==
    [][ OnPageStep =>
          LET m == Get(Section("on_page_seo"), "meta_description_length", 0)
              mi == SelectSeq(NewIssues, IsMetaIssue)
              ms == SelectSeq(NewStrengths, IsMetaStrength)
          IN  /\ Len(mi) + Len(ms) = 1
              /\ (m = 0) =>
                    /\ Len(mi) = 1
                    /\ mi[1].severity = "critical"
                    /\ mi[1].issue = <<"Missing meta description">>
              /\ (m >= 1 /\ m <= 119) =>
                    /\ Len(mi) = 1
                    /\ mi[1].severity = "warning"
                    /\ mi[1].issue[1] = "Meta description too short: "
              /\ (m >= 120 /\ m <= 160) => Len(ms) = 1
              /\ (m > 160) =>
                    /\ Len(mi) = 1
                    /\ mi[1].severity = "warning"
                    /\ mi[1].issue[1] = "Meta description too long: " ]_vars

\* the upper boundary 160 has given a strength
C10_Witness ==
    /\ pc = "technical_seo"
    /\ calls = 1
    /\ NoError("on_page_seo")
    /\ Get(Section("on_page_seo"), "meta_description_length", 0) = 160
    /\ Count(strengths, IsMetaStrength) = 1
    /\ Count(issues, IsMetaIssue) = 0

IsH1Issue(i) == i.issue[1] \in {"Missing H", "Multiple H"}

IsH1Strength(s) == s = <<"Proper H", "1", " structure">>

\* the on-page score the step assigns is 100 minus the other four penalties
\* minus h1_penalty
OnPageScoreWithH1Penalty(h1_penalty) ==
    LET onpage == Section("on_page_seo")
    IN  /\ Has(scores', "on_page_seo")
        /\ scores'["on_page_seo"] =
              Pt(100 - TitlePenalty(Get(onpage, "title_length", 0))
                     - MetaPenalty(Get(onpage, "meta_description_length", 0))
                     - ImagesPenalty(Get(onpage, "total_images", 0),
                                     Get(onpage, "images_without_alt", 0))
                     - ContentPenalty(Get(onpage, "word_count", 0))
                     - h1_penalty)

(***************************************************************************)
(* C11.  For every h1_count exactly one H1 outcome is produced: 0 gives    *)
(* one critical issue, 1 one strength, more than 1 one warning; the H1     *)
(* strength is produced exactly when the 15-point H1 penalty is not        *)
(* applied to the on-page score.                                           *)
(***************************************************************************)
C11_H1Buckets ==
    [][ OnPageStep =>
          LET h == Get(Section("on_page_seo"), "h1_count", 0)
              hi == SelectSeq(NewIssues, IsH1Issue)
              hs == SelectSeq(NewStrengths, IsH1Strength)
          IN  /\ Len(hi) + Len(hs) = 1
              /\ (h = 0) =>
                    /\ Len(hi) = 1
                    /\ hi[1].severity = "critical"
                    /\ hi[1].issue = <<"Missing H", "1", " heading">>
              /\ (h = 1) => Len(hs) = 1
              /\ (h > 1) =>
                    /\ Len(hi) = 1
                    /\ hi[1].severity = "warning"
                    /\ hi[1].issue[1] = "Multiple H"
              /\ (Len(hs) = 1) => OnPageScoreWithH1Penalty(0)
              /\ (Len(hs) = 0) => OnPageScoreWithH1Penalty(15) ]_vars

\* two H1 tags: one warning, no strength, and the penalty in the score
C11_Witness ==
    /\ pc = "technical_seo"
    /\ calls = 1
    /\ NoError("on_page_seo")
    /\ Get(Section("on_page_seo"), "h1_count", 0) = 2
    /\ Count(issues, IsH1Issue) = 1
    /\ Count(strengths, IsH1Strength) = 0
    /\ scores["on_page_seo"] = Pt(85)

IsContentIssue(i) == i.category = "Content"

IsContentStrength(s) == s[1] = "Comprehensive content: "

IsContentOpportunity(o) == o[1] = "Consider expanding content (current: "

IsLinksOpportunity(o) ==
    o = <<"Add more internal links to improve site structure">>

(***************************************************************************)
(* C12.  For every word_count exactly one content outcome is produced:     *)
(* below 300 one warning issue (thin content), above 1500 one strength,    *)
(* 300..1500 inclusive one opportunity and no issue; independently of it,  *)
(* internal_links_count below 3 adds one opportunity, 3 or more nothing.   *)
(***************************************************************************)
C12_ContentAndLinks ==
    [][ OnPageStep =>
          LET w == Get(Section("on_page_seo"), "word_count", 0)
              l == Get(Section("on_page_seo"), "internal_links_count", 0)
              ci == SelectSeq(NewIssues, IsContentIssue)
              cs == SelectSeq(NewStrengths, IsContentStrength)
              co == SelectSeq(NewOpportunities, IsContentOpportunity)
              lo == SelectSeq(NewOpportunities, IsLinksOpportunity)
              counts == <<Len(ci), Len(cs), Len(co)>>
          IN  /\ (w < 300) =>
                    /\ counts = <<1, 0, 0>>
                    /\ ci[1].severity = "warning"
                    /\ ci[1].issue[1] = "Thin content: only "
              /\ (w > 1500) => counts = <<0, 1, 0>>
              /\ (w >= 300 /\ w <= 1500) => counts = <<0, 0, 1>>
              /\ Len(lo) = (IF l < 3 THEN 1 ELSE 0) ]_vars

\* exactly 1500 words and 2 internal links: the two opportunities, no
\* content issue and no content strength
C12_Witness ==
    /\ pc = "technical_seo"
    /\ calls = 1
    /\ NoError("on_page_seo")
    /\ Get(Section("on_page_seo"), "word_count", 0) = 1500
    /\ Get(Section("on_page_seo"), "internal_links_count", 0) = 2
    /\ Count(opportunities, IsContentOpportunity) = 1
    /\ Count(opportunities, IsLinksOpportunity) = 1
    /\ Count(issues, IsContentIssue) = 0
    /\ Count(strengths, IsContentStrength) = 0

PageSpeedStep == pc = "page_speed" /\ NoError("page_speed")

IsPerformanceIssue(i) == i.category = "Performance"

IsPerformanceStrength(s) == s = <<"Excellent page performance">>

IsSeoScoreIssue(i) == i.issue[1] = "SEO score needs improvement: "

IsSeoScoreStrength(s) == s[1] = "Strong technical SEO score: "

IsMobileIssue(i) == i.category = "Mobile"

(***************************************************************************)
(* C13.  Page-speed rules, for a section without error: performance_score  *)
(* >= 90 gives one strength, 50 up to 90 one warning issue, below 50 one   *)
(* critical issue (exactly one of the three); seo_score >= 90 gives one    *)
(* strength, below 80 one warning issue, 80 up to 90 nothing; a false or   *)
(* absent mobile_friendly gives one critical issue for every value of the  *)
(* two scores, and a true one gives none.                                  *)
(***************************************************************************)
C13_PageSpeedRules ==
    [][ PageSpeedStep =>
          LET sd == Section("page_speed")
              p  == Get(sd, "performance_score", 0)
              q  == Get(sd, "seo_score", 0)
              pi == SelectSeq(NewIssues, IsPerformanceIssue)
              ps == SelectSeq(NewStrengths, IsPerformanceStrength)
              qi == SelectSeq(NewIssues, IsSeoScoreIssue)
              qs == SelectSeq(NewStrengths, IsSeoScoreStrength)
              mi == SelectSeq(NewIssues, IsMobileIssue)
              mobile == Has(sd, "mobile_friendly") /\ sd["mobile_friendly"]
          IN  /\ Len(pi) + Len(ps) = 1
              /\ (p >= 900) => Len(ps) = 1
              /\ (p >= 500 /\ p < 900) =>
                    Len(pi) = 1 /\ pi[1].severity = "warning"
              /\ (p < 500) => Len(pi) = 1 /\ pi[1].severity = "critical"
              /\ (q >= 900) => Len(qs) = 1 /\ Len(qi) = 0
              /\ (q < 800) =>
                    Len(qi) = 1 /\ Len(qs) = 0 /\ qi[1].severity = "warning"
              /\ (q >= 800 /\ q < 900) => Len(qi) = 0 /\ Len(qs) = 0
              /\ Len(mi) = (IF mobile THEN 0 ELSE 1)
              /\ Len(mi) = 1 => mi[1].severity = "critical"
              /\ Len(NewIssues) = Len(pi) + Len(qi) + Len(mi)
              /\ Len(NewStrengths) = Len(ps) + Len(qs)
              /\ NewOpportunities = <<>> ]_vars

\* the 85/90 section without its mobile_friendly field: the performance
\* warning, the SEO strength and the critical mobile issue
C13_Witness ==
    /\ pc = "on_page_seo"
    /\ calls = 1
    /\ NoError("page_speed")
    /\ ~Has(Section("page_speed"), "mobile_friendly")
    /\ Get(Section("page_speed"), "performance_score", 0) = Pt(85)
    /\ Get(Section("page_speed"), "seo_score", 0) = Pt(90)
    /\ Count(issues, IsMobileIssue) = 1
    /\ Count(issues, IsPerformanceIssue) = 1
    /\ Count(strengths, IsSeoScoreStrength) = 1

TechnicalStep == pc = "technical_seo" /\ NoError("technical_seo")

IsHttpsIssue(i) == i.issue = <<"Site not using HTTPS">>

IsHttpsStrength(s) == s = <<"Secure HTTPS connection">>

IsStatusIssue(i) == i.issue[1] = "Unexpected status code: "

IsSlowIssue(i) == i.issue[1] = "Slow response time: "

IsFastStrength(s) == s[1] = "Fast response time: "

IsRobotsOpportunity(o) ==
    o = <<"Add robots.txt file to guide search engine crawlers">>

IsRobotsStrength(s) == s = <<"robots.txt file present">>

IsSitemapOpportunity(o) == o = <<"Add XML sitemap for better indexing">>

IsSitemapStrength(s) == s = <<"XML sitemap present">>

IsCompressionOpportunity(o) ==
    o = <<"Enable GZIP/Brotli compression to reduce page size">>

\* 1 when the condition holds, else 0
Bit(b) == IF b THEN 1 ELSE 0

(***************************************************************************)
(* C14.  Technical rules, for a section without error: is_https false      *)
(* gives one critical issue, else one strength; status_code != 200 gives   *)
(* one critical issue; response_time_ms > 2000 gives one warning, < 500    *)
(* one strength, 500..2000 inclusive neither; has_robots_txt and           *)
(* has_sitemap each give an opportunity when false and a strength when     *)
(* true; has_compression false gives an opportunity and true gives         *)
(* nothing.  Each rule fires independently of the others: the number of    *)
(* findings of a rule is a function of its own field alone, and the step   *)
(* appends nothing else.                                                   *)
(***************************************************************************)
C14_TechnicalRules ==
    [][ TechnicalStep =>
          LET t  == Section("technical_seo")
              https  == Get(t, "is_https", FALSE)
              code   == Get(t, "status_code", 0)
              rt     == Get(t, "response_time_ms", 0)
              robots == Get(t, "has_robots_txt", FALSE)
              smap   == Get(t, "has_sitemap", FALSE)
              comp   == Get(t, "has_compression", FALSE)
              hi == SelectSeq(NewIssues, IsHttpsIssue)
              si == SelectSeq(NewIssues, IsStatusIssue)
              ri == SelectSeq(NewIssues, IsSlowIssue)
          IN  /\ Len(hi) = Bit(~https)
              /\ Len(hi) = 1 => hi[1].severity = "critical"
              /\ Count(NewStrengths, IsHttpsStrength) = Bit(https)
              /\ Len(si) = Bit(code # 200)
              /\ Len(si) = 1 => si[1].severity = "critical"
              /\ Len(ri) = Bit(rt > 2000)
              /\ Len(ri) = 1 => ri[1].severity = "warning"
              /\ Count(NewStrengths, IsFastStrength) = Bit(rt < 500)
              /\ Count(NewOpportunities, IsRobotsOpportunity) = Bit(~robots)
              /\ Count(NewStrengths, IsRobotsStrength) = Bit(robots)
              /\ Count(NewOpportunities, IsSitemapOpportunity) = Bit(~smap)
              /\ Count(NewStrengths, IsSitemapStrength) = Bit(smap)
              /\ Count(NewOpportunities, IsCompressionOpportunity) = Bit(~comp)
              /\ Len(NewIssues) = Len(hi) + Len(si) + Len(ri)
              /\ Len(NewStrengths) =
                    Bit(https) + Bit(rt < 500) + Bit(robots) + Bit(smap)
              /\ Len(NewOpportunities) =
                    Bit(~robots) + Bit(~smap) + Bit(~comp) ]_vars

\* a plain-HTTP page answering 404 in exactly 2000 ms, with robots.txt and
\* compression but no sitemap: two critical issues, no response-time
\* finding, one strength and one opportunity
C14_Witness ==
    /\ pc = "overall"
    /\ calls = 1
    /\ Section("technical_seo") =
          [is_https |-> FALSE, status_code |-> 404, response_time_ms |-> 2000,
           has_robots_txt |-> TRUE, has_sitemap |-> FALSE,
           has_compression |-> TRUE]
    /\ Count(issues, IsHttpsIssue) = 1
    /\ Count(issues, IsStatusIssue) = 1
    /\ Count(issues, IsSlowIssue) = 0
    /\ Count(strengths, IsFastStrength) = 0
    /\ Count(strengths, IsRobotsStrength) = 1
    /\ Count(opportunities, IsSitemapOpportunity) = 1
    /\ Count(opportunities, IsCompressionOpportunity) = 0

\* the end-to-end example: 85/90/mobile, title 55, meta 150, one H1, 5 images
\* with alt text, 1200 words, 5 links, HTTPS, 200, 450 ms, robots, sitemap,
\* compression
ExampleRecord == Record(SpeedGood, OnPageGood, TechGood)

ExampleDone == Done /\ data = ExampleRecord

ExampleCategoryScores ==
    /\ DOMAIN scores = {"performance", "technical_seo", "on_page_seo", "overall"}
    /\ scores["performance"] = 850
    /\ scores["technical_seo"] = 900
    /\ scores["on_page_seo"] = 1000

\* C16 as stated: the example scores 85, 90 and 100 and 91.5 overall
C16_ExampleOverall915 ==
    ExampleDone =>
        /\ ExampleCategoryScores
        /\ Last.overall_score = 915

(***************************************************************************)
(* C16.  End-to-end example, scores: for the example record analyze_all    *)
(* gives performance 85, technical_seo 90, on_page_seo 100 and overall     *)
(* 92.5, which is round(0.3*85 + 0.3*90 + 0.4*100, 1).                     *)
(***************************************************************************)
C16_ExampleScores ==
    ExampleDone =>
        /\ ExampleCategoryScores
        /\ Last.overall_score = 925
        /\ scores["overall"] = 925

C16_Witness ==
    /\ ExampleDone
    /\ calls = 1
    /\ Last.overall_score = 925
    /\ Last.category_scores["on_page_seo"] = 1000

ExampleFirstDone == ExampleDone /\ calls = 1

\* the eight strengths the example is said to include
ExampleStrengths ==
    { <<"Secure HTTPS connection">>,
      <<"Fast response time: ", "4", "5", "0", "ms">>,
      <<"Good title length: ", "5", "5", " characters">>,
      <<"Good meta description length: ", "1", "5", "0", " characters">>,
      <<"Proper H", "1", " structure">>,
      <<"All images have alt text">>,
      <<"robots.txt file present">>,
      <<"XML sitemap present">> }

Range(seq) == {seq[k] : k \in DOMAIN seq}

\* C17 as stated: no critical issue, no warning, the eight strengths
C17_ExampleNoWarnings ==
    ExampleFirstDone =>
        /\ Last.critical_issues = <<>>
        /\ Last.warnings = <<>>
        /\ ExampleStrengths \subseteq Range(Last.strengths)

(***************************************************************************)
(* C17.  End-to-end example, findings: the result for the example record   *)
(* has zero critical issues and exactly one warning, the performance       *)
(* warning "Moderate performance score: 85/100" (85 is below 90), and its  *)
(* strengths are the eight listed ones and the SEO-score strength.         *)
(***************************************************************************)
C17_ExampleFindings ==
    ExampleFirstDone =>
        /\ Last.critical_issues = <<>>
        /\ Len(Last.warnings) = 1
        /\ Last.warnings[1].category = "Performance"
        /\ Last.warnings[1].severity = "warning"
        /\ Last.warnings[1].issue =
              <<"Moderate performance score: ", "8", "5", "/", "1", "0", "0">>
        /\ Last.all_issues = Last.warnings
        /\ ExampleStrengths \subseteq Range(Last.strengths)
        /\ Range(Last.strengths) \ ExampleStrengths =
              { <<"Strong technical SEO score: ", "9", "0", "/", "1", "0", "0">> }
        /\ Len(Last.strengths) = 9

C17_Witness ==
    /\ ExampleFirstDone
    /\ Len(Last.warnings) = 1
    /\ Len(Last.critical_issues) = 0
    /\ Len(Last.strengths) = 9

\* every field of a section at its zero value
SpeedZero == [performance_score |-> 0, seo_score |-> 0,
              mobile_friendly |-> FALSE]

OnPageZero == [title_length |-> 0, meta_description_length |-> 0,
               h1_count |-> 0, total_images |-> 0, images_without_alt |-> 0,
               word_count |-> 0, internal_links_count |-> 0]

TechZero == [is_https |-> FALSE, status_code |-> 0, response_time_ms |-> 0,
             has_robots_txt |-> FALSE, has_sitemap |-> FALSE,
             has_compression |-> FALSE]

\* the section with every absent field written out at its zero value
ZeroFilled(section, zero) ==
    [k \in DOMAIN zero |-> IF k \in DOMAIN section THEN section[k] ELSE zero[k]]

\* the step appends the findings and sets the scores of the given section
StepActsAs(findings, new_scores) ==
    /\ NewIssues = findings.issues
    /\ NewStrengths = findings.strengths
    /\ NewOpportunities = findings.opportunities
    /\ scores' = new_scores

SomeFieldAbsent ==
    \/ ~Has(data, "page_speed")
    \/ ~Has(data, "on_page_seo")
    \/ ~Has(data, "technical_seo")
    \/ (NoError("page_speed") /\ DOMAIN Section("page_speed") # DOMAIN SpeedZero)
    \/ (NoError("on_page_seo") /\ DOMAIN Section("on_page_seo") # DOMAIN OnPageZero)
    \/ (NoError("technical_seo") /\ DOMAIN Section("technical_seo") # DOMAIN TechZero)

(***************************************************************************)
(* C18.  analyze_all is total on records with missing fields: when any     *)
(* subset of the numeric or boolean fields of a section, or a whole        *)
(* section, is absent from the input record, every step of analyze_all     *)
(* acts exactly as it does on the record with the absent fields written    *)
(* out as 0 or false, the call runs to its return, and an overall score    *)
(* is returned (e.g. for the test record without internal_links_count and  *)
(* has_compression).                                                       *)
(***************************************************************************)
C18_AbsentFieldsAreZero ==
    /\ [][ /\ PageSpeedStep =>
                LET z == ZeroFilled(Section("page_speed"), SpeedZero)
                IN  StepActsAs(PageSpeedFindings(z), PageSpeedScores(z, scores))
           /\ OnPageStep =>
                LET z == ZeroFilled(Section("on_page_seo"), OnPageZero)
                IN  StepActsAs(OnPageFindings(z), OnPageScores(z, scores))
           /\ TechnicalStep =>
                LET z == ZeroFilled(Section("technical_seo"), TechZero)
                IN  StepActsAs(TechnicalFindings(z), TechnicalScores(z, scores))
           /\ (pc # "ready") => (pc' # pc /\ calls' = calls) ]_vars
    /\ [](Done => /\ Has(scores, "overall")
                  /\ Last.overall_score = scores["overall"])

\* the test record, which has neither internal_links_count nor
\* has_compression, analyzed: both are read as zero/false, giving the two
\* opportunities, and the overall score 92.5 is returned
C18_Witness ==
    /\ Done
    /\ calls = 1
    /\ data = TestRecord
    /\ SomeFieldAbsent
    /\ Count(opportunities, IsLinksOpportunity) = 1
    /\ Count(opportunities, IsCompressionOpportunity) = 1
    /\ Last.overall_score = 925

\* the place of the rule that produces an issue, in evaluation order: the
\* page-speed rules 1..3, the on-page rules 4..8, the technical rules 9..11
\* (the error issue of a section stands for its first rule)
IssueRank(i) ==
    CASE i.issue = <<"Could not retrieve PageSpeed data">> -> 1
      [] i.issue[1] \in {"Moderate performance score: ",
                         "Poor performance score: "} -> 1
      [] IsSeoScoreIssue(i) -> 2
      [] IsMobileIssue(i) -> 3
      [] i.issue = <<"Could not analyze on-page elements">> -> 4
      [] IsTitleIssue(i) -> 4
      [] IsMetaIssue(i) -> 5
      [] IsH1Issue(i) -> 6
      [] IsImageIssue(i) -> 7
      [] IsContentIssue(i) -> 8
      [] i.issue = <<"Could not analyze technical aspects">> -> 9
      [] IsHttpsIssue(i) -> 9
      [] IsStatusIssue(i) -> 10
      [] IsSlowIssue(i) -> 11
      [] OTHER -> 0

\* the section whose analysis produces the issue
IssueSection(i) ==
    IF IssueRank(i) \in 1..3 THEN "page_speed"
    ELSE IF IssueRank(i) \in 4..8 THEN "on_page_seo"
    ELSE IF IssueRank(i) \in 9..11 THEN "technical_seo"
    ELSE "none"

InRuleOrder(seq) ==
    \A j, k \in DOMAIN seq : j < k => IssueRank(seq[j]) < IssueRank(seq[k])

RECURSIVE IsSubseq(_, _)
\* a is b with some elements left out, order kept
IsSubseq(a, b) ==
    IF a = <<>> THEN TRUE
    ELSE IF b = <<>> THEN FALSE
    ELSE IF Head(a) = Head(b) THEN IsSubseq(Tail(a), Tail(b))
    ELSE IsSubseq(a, Tail(b))

\* critical and warn are order-preserving subsequences of all, and every
\* issue of all is in exactly one of them
Partitions(critical, warn, all) ==
    /\ IsSubseq(critical, all)
    /\ IsSubseq(warn, all)
    /\ Len(critical) + Len(warn) = Len(all)
    /\ \A k \in DOMAIN critical : critical[k].severity = "critical"
    /\ \A k \in DOMAIN warn : warn[k].severity = "warning"
    /\ \A k \in DOMAIN all : all[k].severity \in {"critical", "warning"}

Min(a, b) == IF a < b THEN a ELSE b

\* the first line of an issue in the summary (the recommendation lines
\* start with the arrow, the 'none' line with its own text)
IsIssueHeadLine(l) == l[1] = "  "

IsRecommendationLine(l) == l[1] = "     -> "

\* the summary line that opens issue i
IssueHeadLine(i) ==
    <<"  ", IF IsCritical(i) THEN "(red)" ELSE "(yellow)", " [", i.category,
      "] ">> \o i.issue

\* block lists the first 5 items, in their order, or is the 'none' line
ListsFirstFive(block, items) ==
    IF items = <<>> THEN block = << <<"  None identified">> >>
    ELSE /\ Len(block) = Min(Len(items), 5)
         /\ \A k \in DOMAIN block : block[k] = <<"  (check) ">> \o items[k]

(***************************************************************************)
(* C20.  generate_summary reports a critical count and a warning count     *)
(* whose sum is the number of accumulated issues, and lists at most 5      *)
(* strengths, 5 issues and 5 opportunities, namely the first 5 of each     *)
(* collection in evaluation (insertion) order, not ordered by severity;    *)
(* an empty collection is rendered by its fixed 'none' line.               *)
(***************************************************************************)
C20_SummaryTopFive ==
    Done =>
        LET sm    == Last.summary
            heads == SelectSeq(sm.issues, IsIssueHeadLine)
            recs  == SelectSeq(sm.issues, IsRecommendationLine)
            shown == Min(Len(issues), 5)
        IN  /\ \E c, w \in 0..Len(issues) :
                  /\ c + w = Len(issues)
                  /\ c = Count(issues, IsCritical)
                  /\ sm.counts = << <<"- Critical Issues: ">> \o Str(c),
                                    <<"- Warnings: ">> \o Str(w) >>
            /\ sm.strengths_head =
                  <<"Top Strengths (">> \o Str(Len(strengths)) \o <<"):">>
            /\ ListsFirstFive(sm.strengths, strengths)
            /\ ListsFirstFive(sm.opportunities, opportunities)
            /\ (issues = <<>>) => sm.issues = << <<"  None - Great job!">> >>
            /\ (issues # <<>>) =>
                  /\ Len(heads) = shown
                  /\ \A k \in 1..shown : heads[k] = IssueHeadLine(issues[k])
                  /\ Len(sm.issues) = Len(heads) + Len(recs)
                  /\ Len(recs) =
                        Cardinality({k \in 1..shown :
                                        Has(issues[k], "recommendation")})

\* the record with eight issues and six opportunities: five of each are
\* listed, the warning in second place is among them and the critical
\* issues in sixth and seventh place are not
C20_Witness ==
    /\ Done
    /\ calls = 1
    /\ data = ManyFindingsRecord
    /\ Len(issues) = 8
    /\ Len(opportunities) = 6
    /\ IsWarning(issues[2])
    /\ IsCritical(issues[6])
    /\ IsCritical(issues[7])
    /\ Len(SelectSeq(Last.summary.issues, IsIssueHeadLine)) = 5
    /\ Len(Last.summary.opportunities) = 5
    /\ Last.summary.issues[3] = IssueHeadLine(issues[2])

\* the fields of an analysis (the timestamp is not modelled)
SameAnalysis(a, b) ==
    /\ a.url = b.url
    /\ a.category_scores = b.category_scores
    /\ a.overall_score = b.overall_score
    /\ a.all_issues = b.all_issues
    /\ a.critical_issues = b.critical_issues
    /\ a.warnings = b.warnings
    /\ a.strengths = b.strengths
    /\ a.opportunities = b.opportunities
    /\ a.summary = b.summary

(***************************************************************************)
(* C15.  Scoring the same input record twice, each time with a newly       *)
(* created SEOAnalyzer, yields identical category scores, overall score,   *)
(* issues, strengths and opportunities (everything but the timestamp),     *)
(* and leaves the input record unchanged: the result of an analyzer equals *)
(* the result every earlier analyzer gave after as many calls.             *)
(***************************************************************************)
C15_FreshAnalyzersAgree ==
    /\ [][data' = data]_vars
    /\ [](Done =>
            \A k \in DOMAIN analyses :
                (analyses[k].calls = calls) =>
                    SameAnalysis(Last, analyses[k].analysis))

\* the record with eight issues scored once by a first and once by a second
\* analyzer
C15_Witness ==
    /\ Done
    /\ calls = 1
    /\ Len(analyses) = 1
    /\ analyses[1].calls = 1
    /\ data = ManyFindingsRecord
    /\ Len(issues) = 8
    /\ Len(analyses[1].analysis.all_issues) = 8
    /\ Last.overall_score = analyses[1].analysis.overall_score

\* C21 as stated: the scoring engine holds no state across calls: the
\* result returned by the first analyze_all call on an instance is not
\* changed by anything that follows, and a second call on the same instance
\* returns the same category scores, overall score, issues, strengths and
\* opportunities as the first
C21_NoStateAcrossCalls ==
    /\ [][ (Len(returned) >= 1) => (Analysis(1)' = Analysis(1)) ]_vars
    /\ []((Done /\ calls >= 2) => SameAnalysis(Analysis(1), Analysis(2)))

\* the example record after two calls on one instance: the second result
\* has twice the warnings of the first, and the strengths list, which both
\* results share, has grown from 9 to 18 entries; the scores are the same
C21_Witness ==
    /\ Done
    /\ calls = 2
    /\ data = ExampleRecord
    /\ Len(returned[1].warnings) = 1
    /\ Len(returned[2].warnings) = 2
    /\ Len(Analysis(1).strengths) = 18
    /\ Len(Analysis(1).all_issues) = 2
    /\ returned[1].overall_score = returned[2].overall_score

\* the penalty that matches the issues a rule has appended: 20 for a
\* critical one, 10 for a warning (title and meta description)
MissingOrOutOfRange(found) ==
    IF found = <<>> THEN 0
    ELSE IF found[1].severity = "critical" THEN 20 ELSE 10

\* the penalties matching the issues the on-page step appends
PenaltiesOfNewIssues ==
    MissingOrOutOfRange(SelectSeq(NewIssues, IsTitleIssue))
    + MissingOrOutOfRange(SelectSeq(NewIssues, IsMetaIssue))
    + 15 * Count(NewIssues, IsH1Issue)
    + 10 * Count(NewIssues, IsImageIssue)
    + 15 * Count(NewIssues, IsContentIssue)

\* images counted as lacking alt text on a page said to have no image
AltWithoutImages ==
    /\ Get(Section("on_page_seo"), "total_images", 0) = 0
    /\ Get(Section("on_page_seo"), "images_without_alt", 0) > 0

\* C23 as stated: each penalty is applied exactly when the matching issue
\* is appended, and the on-page score is 100 if and only if the on-page
\* analysis appended no issue
C23_PenaltyIffIssue ==
    [][ OnPageStep =>
          /\ scores'["on_page_seo"] = Pt(100 - PenaltiesOfNewIssues)
          /\ (scores'["on_page_seo"] = 1000) <=> (NewIssues = <<>>) ]_vars

(***************************************************************************)
(* C23.  For every on-page section without error and with non-negative     *)
(* integer fields, the title, meta description, H1 and content penalties   *)
(* are applied exactly when the matching issue is appended, and the image  *)
(* penalty exactly when the image issue is appended or total_images = 0    *)
(* with images_without_alt > 0 (a penalty of 10 with no issue); so the     *)
(* on-page score is 100 if and only if no issue was appended and the       *)
(* section is not of that kind.  images_without_alt > total_images > 0     *)
(* gives both the issue and the penalty.                                   *)
(***************************************************************************)
C23_PenaltyIffIssueOrAltWithoutImages ==
    [][ OnPageStep =>
          /\ scores'["on_page_seo"] =
                Pt(100 - PenaltiesOfNewIssues
                       - (IF AltWithoutImages THEN 10 ELSE 0))
          /\ AltWithoutImages => Count(NewIssues, IsImageIssue) = 0
          /\ (scores'["on_page_seo"] = 1000) <=>
                (NewIssues = <<>> /\ ~AltWithoutImages) ]_vars

\* a page with a good title, meta description, H1 and 300 words, no image
\* and one image without alt text: no on-page issue and a score of 90
C23_Witness ==
    /\ pc = "technical_seo"
    /\ calls = 1
    /\ NoError("on_page_seo")
    /\ AltWithoutImages
    /\ \A k \in DOMAIN issues : IssueSection(issues[k]) # "on_page_seo"
    /\ scores["on_page_seo"] = 900

\* collect_seo_data has returned its list to run
CollectReturned ==
    rpc \in {"analyze", "analyzing", "insights", "generating", "reports", "done"}

\* C24 as stated: collect_seo_data returns exactly one record per input
\* URL, the i-th record for the i-th URL: the collected data or a {url,
\* error} record, never both for the same URL, for every way in which
\* collecting a URL or saving its data file can fail
C24_OneRecordPerUrl ==
    CollectReturned =>
        /\ Len(all_data) = Len(TargetUrls)
        /\ \A i \in DOMAIN all_data : all_data[i].url = TargetUrls[i]

\* one URL whose data was collected and whose data file could not be
\* saved: the returned list holds its data and, after it, its error record
C24_Witness ==
    /\ rpc = "analyze"
    /\ loop_index = 1
    /\ Len(TargetUrls) = 1
    /\ Len(all_data) = 2
    /\ ~Has(all_data[1], "error")
    /\ Has(all_data[2], "error")
    /\ all_data[1].url = TargetUrls[1]
    /\ all_data[2].url = TargetUrls[1]

InsightStep == rpc \in {"insights", "generating"}

\* the step is skipped: by the flag, or for want of a configured key
InsightsSkipped ==
    args.skip_ai \/ config.api_key \in {"", PlaceholderKey}

\* the analysis the k-th report file was written for
ReportIndex(k) == ((k - 1) \div 3) + 1

(***************************************************************************)
(* C22.  In SEOAutomation.run the insight step is best-effort: whether it  *)
(* is skipped by the skip_ai flag, skipped because the API key is missing  *)
(* or the placeholder, or fails by raising (generator construction or a    *)
(* generation call), the run goes on to the report step, which writes      *)
(* reports for every analysis; no insight call is made when the step is    *)
(* skipped; a failed model call inside generate_insights is appended as a  *)
(* record with error and fallback_insights and the loop goes on; and       *)
(* every analysis with no insight at its index gets the fixed 'AI          *)
(* insights not available' text.                                           *)
(***************************************************************************)
C22_InsightsBestEffort ==
    /\ [][ InsightStep =>
             /\ rpc' \in {"generating", "reports"}
             /\ (rpc' = "reports" /\ skip_ai') =>
                   UNCHANGED <<ai_insights_list, analyses, generated_reports>>
             /\ (Len(ai_insights_list') > Len(ai_insights_list)) =>
                   /\ rpc' = "generating"
                   /\ model_calls' = model_calls + 1
                   /\ LET new == ai_insights_list'[Len(ai_insights_list')]
                      IN  \/ DOMAIN new = {"error", "fallback_insights"}
                          \/ ("ai_insights" \in DOMAIN new
                              /\ "error" \notin DOMAIN new) ]_vars
    /\ [](InsightsSkipped => (model_calls = 0 /\ ai_insights_list = <<>>))
    /\ [](Len(ai_insights_list) <= Len(analyses))
    /\ []((rpc = "done") =>
            /\ Len(generated_reports) = 3 * Len(analyses)
            /\ \A k \in DOMAIN generated_reports :
                  /\ generated_reports[k].url = analyses[ReportIndex(k)].analysis.url
                  /\ (ReportIndex(k) > Len(ai_insights_list)) =>
                        generated_reports[k].ai_insights =
                           [ai_insights |-> "AI insights not available. Run with Gemini API key configured."]
                  /\ (ReportIndex(k) <= Len(ai_insights_list)) =>
                        generated_reports[k].ai_insights =
                           ai_insights_list[ReportIndex(k)])

\* a completed run with two analyses: the model call failed for the first,
\* which has the error record, the second generate_insights call raised,
\* and the three reports of the second analysis carry the fixed text
C22_Witness ==
    /\ rpc = "done"
    /\ ~args.skip_ai
    /\ skip_ai
    /\ Len(analyses) = 2
    /\ model_calls = 2
    /\ Len(ai_insights_list) = 1
    /\ DOMAIN ai_insights_list[1] = {"error", "fallback_insights"}
    /\ Len(generated_reports) = 6
    /\ generated_reports[1].ai_insights = ai_insights_list[1]
    /\ generated_reports[4].ai_insights = NotAvailable

NoTopLevelError(d) == ~Has(d, "error")

\* the overall score of the two kinds of collected record: 92.5 for the
\* good page, 0.3*49 + 0.3*79 + 0.4*60 = 62.4 for the page with many findings
ExpectedOverall(d) ==
    IF d.page_speed.performance_score = Pt(85) THEN 925 ELSE 624

(***************************************************************************)
(* C25.  When SEOAutomation.run completes, its analyses hold exactly one   *)
(* entry per collected record that has no top-level error, in collection   *)
(* order (records with a top-level error are never analyzed), and its      *)
(* report list holds exactly three files per analysis (markdown, html,     *)
(* json, in that order), so the number of reports is 3 times the number    *)
(* of analyses; with no URL from the arguments or the configuration, run   *)
(* returns without collecting, analyzing or writing any report, and with   *)
(* zero analyses the average score is never computed.                      *)
(***************************************************************************)
C25_RunResults ==
    /\ []((rpc = "done") =>
            LET good == SelectSeq(all_data, NoTopLevelError)
            IN  /\ Len(Results.analyses) = Len(good)
                /\ \A k \in DOMAIN good :
                      /\ Results.analyses[k].url = good[k].url
                      /\ Results.analyses[k].overall_score = ExpectedOverall(good[k])
                /\ Len(Results.reports) = 3 * Len(Results.analyses)
                /\ \A i \in DOMAIN Results.analyses :
                      \A f \in 1..3 :
                         /\ Results.reports[3 * (i - 1) + f].name =
                               <<"seo_report_", DomainOf(good[i].url),
                                 <<"markdown", "html", "json">>[f]>>
                         /\ Results.reports[3 * (i - 1) + f].overall_score =
                               ExpectedOverall(good[i])
                /\ (analyses # <<>>) =>
                      /\ Len(avg_score) = 2
                      /\ avg_score[2] = Len(good)
                      /\ avg_score[2] > 0)
    /\ [](~Has(data, "error"))
    /\ []((analyses = <<>>) => (avg_score = <<>>))
    /\ []((args.urls = <<>> /\ config.target_urls = <<>>) =>
            /\ rpc \in {"start", "returned"}
            /\ all_data = <<>>
            /\ analyses = <<>>
            /\ generated_reports = <<>>
            /\ calls = 0
            /\ model_calls = 0)

\* a completed run over two URLs: the data file of the first could not be
\* saved, so three records were collected, the second an error record; two
\* analyses, six reports, the average taken over two scores
C25_Witness ==
    /\ rpc = "done"
    /\ Len(TargetUrls) = 2
    /\ Len(all_data) = 3
    /\ Has(all_data[2], "error")
    /\ Len(analyses) = 2
    /\ analyses[1].analysis.overall_score = 624
    /\ analyses[2].analysis.overall_score = 925
    /\ Len(generated_reports) = 6
    /\ generated_reports[6].name[3] = "json"
    /\ avg_score = <<1549, 2>>

====
